---- MODULE Spec2Model ----
(***************************************************************************)
(* Model of the Edge memory layer (EdgeMemory.h / EdgeMemory.cpp) and of   *)
(* the assertion facility it reports to (EdgeAssert.h / EdgeAssert.cpp).   *)
(*                                                                         *)
(* One run exercises one allocator object, chosen in Init by `strategy`:   *)
(* the SystemAllocator, a LinearAllocator or a PoolAllocator.  The build   *)
(* configuration EDGE_DEBUG is chosen in Init and never changes.           *)
(*                                                                         *)
(* size_t / uintptr_t are WordBits wide; all size_t arithmetic is modulo   *)
(* 2^WordBits.  Addresses are plain numbers, NULL is 0.                    *)
(***************************************************************************)
EXTENDS Integers, Sequences, FiniteSets, TLC

(***************************************************************************)
(* Bounds of the model.                                                    *)
(***************************************************************************)
WordBits == 10
MaxAllocs == 3
MaxCount == 4
MaxMisuse == 2
LinearSize == 8
PoolElements == 3

(***************************************************************************)
(* Program constants.                                                      *)
(***************************************************************************)
NULL == 0
\* uint32_t guard values are written as hexadecimal strings.
GUARD_VALUE == "0xDEADC0DE"
NotGuard == "0x00000000"
HeaderSize == 64
TagCount == 26
EDGE_CACHE_LINE_SIZE == 64
PtrSize == 8

(***************************************************************************)
(* size_t arithmetic.                                                      *)
(***************************************************************************)
RECURSIVE Pow2(_)
Pow2(n) == IF n = 0 THEN 1 ELSE 2 * Pow2(n - 1)

WordMod == Pow2(WordBits)
SIZE_MAX == WordMod - 1

Add(a, b) == (a + b) % WordMod
Sub(a, b) == (a - b + WordMod) % WordMod
Mul(a, b) == (a * b) % WordMod

RECURSIVE BitAndN(_, _, _)
BitAndN(a, b, n) ==
    IF n = 0 THEN 0
    ELSE (IF a % 2 = 1 /\ b % 2 = 1 THEN 1 ELSE 0)
         + 2 * BitAndN(a \div 2, b \div 2, n - 1)

BitAnd(a, b) == BitAndN(a, b, WordBits)
BitNot(a) == SIZE_MAX - a

\* alignment > 0 && (alignment & (alignment - 1)) == 0
IsPowerOfTwo(alignment) ==
    alignment > 0 /\ BitAnd(alignment, Sub(alignment, 1)) = 0

\* (size + alignment - 1) & ~(alignment - 1)
AlignUp(size, alignment) ==
    BitAnd(Sub(Add(size, alignment), 1), BitNot(Sub(alignment, 1)))

(***************************************************************************)
(* MemoryStats.                                                            *)
(***************************************************************************)
ZeroStats ==
    [totalAllocated |-> 0, totalFreed |-> 0, currentUsage |-> 0,
     peakUsage |-> 0, allocationCount |-> 0, freeCount |-> 0]

\* totalAllocated += size; currentUsage += size; allocationCount++; peak
StatsOnAllocate(st, size) ==
    LET cur == Add(st.currentUsage, size)
    IN [st EXCEPT !.totalAllocated = Add(st.totalAllocated, size),
                  !.currentUsage = cur,
                  !.allocationCount = Add(st.allocationCount, 1),
                  !.peakUsage = IF cur > st.peakUsage THEN cur ELSE st.peakUsage]

\* Faulty variant: the freed bytes are not added to totalFreed.
StatsOnFree_NoTotal(st, size) ==
    [st EXCEPT !.currentUsage = Sub(st.currentUsage, size),
               !.freeCount = Add(st.freeCount, 1)]

\* totalFreed += size; currentUsage -= size; freeCount++
StatsOnFree(st, size) ==
    [st EXCEPT !.totalFreed = Add(st.totalFreed, size),
               !.currentUsage = Sub(st.currentUsage, size),
               !.freeCount = Add(st.freeCount, 1)]

\* totalFreed += currentUsage; currentUsage = 0; freeCount += allocationCount
StatsOnReset(st) ==
    [st EXCEPT !.totalFreed = Add(st.totalFreed, st.currentUsage),
               !.currentUsage = 0,
               !.freeCount = Add(st.freeCount, st.allocationCount)]

(***************************************************************************)
(* State.                                                                  *)
(***************************************************************************)
VARIABLES
    EDGE_DEBUG,     \* build configuration: TRUE in a debug build
    halted,         \* the breakpoint/trap primitive ended the process
    strategy,       \* the allocator object this run exercises
    call,           \* the last call: operation, arguments, result, reports
    sys,            \* the SystemAllocator object
    heap,           \* the AllocationHeader stored at each platform block
    platformLive,   \* blocks the platform allocator currently has handed out
    owned,          \* user pointers the caller holds, in allocation order
    freed,          \* the user pointer released last and not returned again
    misuse,         \* calls made from the first one that broke the calling
                    \* contract of the allocator on (0: none did)
    lin,            \* the LinearAllocator object
    pool,           \* the PoolAllocator object
    poolMem,        \* the word stored at each word address of the pool buffer
    sentinelUsed,   \* an allocation was requested under a tag that is no
                    \* category (MemoryTag::COUNT or above)
    g_SystemAllocator,  \* the default instance: NULL or the number of the
                        \* SystemAllocator construction that made it
    constructed,    \* SystemAllocator objects constructed so far
    pc,             \* where each thread stands in GetSystemAllocator
    mark,           \* the pointer New returned last and the statistics
                    \* before that call, until another call is made
    m_Callback,     \* AssertHandler: a custom callback is registered
    callbackCalls   \* invocations of the custom callback so far

(***************************************************************************)
(* The assertion facility.                                                 *)
(***************************************************************************)
\* AssertHandler::DefaultHandler: the halt decision for a severity.
DefaultHandler(level) ==
    CASE level = "Fatal" -> TRUE
      [] level = "Error" -> EDGE_DEBUG
      [] OTHER -> FALSE

\* EDGE_ASSERT(condition, ...): compiled out unless EDGE_DEBUG; reports at
\* Error severity when the condition is false.
AssertReports(condition) == EDGE_DEBUG /\ ~condition

\* EDGE_ASSERT_IMPL: DebugBreak() is invoked when the handler says so.
AssertBreaks(condition) == AssertReports(condition) /\ DefaultHandler("Error")

\* DebugBreak() is __debugbreak / __builtin_trap / abort: it ends the process,
\* or, where a debugger resumes after the breakpoint, returns.  `trap` is the
\* outcome where the process ends, `cont` the outcomes of the code after the
\* assertion.
Bump(o) == [o EXCEPT !.diag = @ + 1]

Asserted(condition, trap, cont) ==
    IF AssertReports(condition)
    THEN (IF DefaultHandler("Error") THEN {Bump(trap)} ELSE {})
         \cup {Bump(o) : o \in cont}
    ELSE cont

(***************************************************************************)
(* The platform's aligned allocation primitive.                            *)
(***************************************************************************)
PlatformAddrs == {192, 384, 520}

\* aligned_alloc / _aligned_malloc: failure, or a block that is not handed
\* out, aligned to a power-of-two alignment.  What it does with any other
\* alignment is left to the platform.
PlatformAlloc(pl, alignment) ==
    LET fits == {a \in PlatformAddrs \ pl :
                    IsPowerOfTwo(alignment) => a % alignment = 0}
    IN {NULL} \cup {a \in fits : \A b \in fits : a <= b}

\* Bytes that hold no AllocationHeader.
NoHeader ==
    [size |-> 0, alignment |-> 0, tag |-> 0, file |-> NULL, line |-> 0,
     prev |-> NULL, next |-> NULL, guardValue |-> NotGuard]

\* The platform owns the bytes of the blocks that are not handed out and
\* overwrites them: at the latest at its next call.
Scrub(hp, keep) ==
    [a \in PlatformAddrs |-> IF a \in keep THEN hp[a] ELSE NoHeader]

\* free / _aligned_free of `a`.  The released block's bytes are overwritten
\* at once or survive until the next call; releasing what is not a
\* handed-out block is undefined: it is ignored or ends the process.
PlatformFree(hp, pl, a) ==
    IF a \in pl
    THEN {[heap |-> h, plat |-> pl \ {a}, halted |-> FALSE] :
             h \in {Scrub(hp, pl), Scrub(hp, pl \ {a})}}
    ELSE {[heap |-> hp, plat |-> pl, halted |-> FALSE],
          [heap |-> hp, plat |-> pl, halted |-> TRUE]}

(***************************************************************************)
(* SystemAllocator.                                                        *)
(***************************************************************************)
Tags == 0 .. (TagCount - 1)

\* SystemAllocator::SystemAllocator()
SystemAllocatorInit ==
    [m_Stats |-> ZeroStats,
     m_TagStats |-> [t \in Tags |-> ZeroStats],
     m_TrackingEnabled |-> EDGE_DEBUG,
     m_FirstAllocation |-> NULL,
     m_LastAllocation |-> NULL]

\* The outcome of a SystemAllocator call.
SysOutcome(self, hp, pl, ret, stopped) ==
    [sys |-> self, heap |-> hp, plat |-> pl, ret |-> ret, diag |-> 0,
     halted |-> stopped]

\* SystemAllocator::GetStats: a copy of m_Stats.
GetStats(self) == self.m_Stats

\* SystemAllocator::GetTagStats(tag): a copy of m_TagStats[tag], or
\* zeroed statistics for a tag index that is not below MemoryTag::COUNT.
GetTagStats(self, tag) ==
    IF tag < TagCount THEN self.m_TagStats[tag] ELSE ZeroStats

\* Faulty variant: the per-tag statistics are always those of tag 0.
TrackAllocation_TagZero(self, hp, header, size, tag) ==
    LET stats == StatsOnAllocate(self.m_Stats, size)
        tagStats == [self.m_TagStats EXCEPT ![0] = StatsOnAllocate(@, size)]
        counted == [self EXCEPT !.m_Stats = stats, !.m_TagStats = tagStats]
    IN IF self.m_FirstAllocation = NULL
       THEN [sys |-> [counted EXCEPT !.m_FirstAllocation = header,
                                     !.m_LastAllocation = header],
             heap |-> hp]
       ELSE [sys |-> [counted EXCEPT !.m_LastAllocation = header],
             heap |-> [hp EXCEPT
                          ![header].prev = self.m_LastAllocation,
                          ![self.m_LastAllocation].next = header]]

\* SystemAllocator::TrackAllocation
TrackAllocation(self, hp, header, size, tag) ==
    LET stats == StatsOnAllocate(self.m_Stats, size)
        tagStats == IF tag < TagCount
                    THEN [self.m_TagStats EXCEPT
                             ![tag] = StatsOnAllocate(@, size)]
                    ELSE self.m_TagStats
        counted == [self EXCEPT !.m_Stats = stats, !.m_TagStats = tagStats]
    IN IF self.m_FirstAllocation = NULL
       THEN [sys |-> [counted EXCEPT !.m_FirstAllocation = header,
                                     !.m_LastAllocation = header],
             heap |-> hp]
       ELSE [sys |-> [counted EXCEPT !.m_LastAllocation = header],
             heap |-> [hp EXCEPT
                          ![header].prev = self.m_LastAllocation,
                          ![self.m_LastAllocation].next = header]]

\* Faulty variant: unlinking the first header does not move
\* m_FirstAllocation.
TrackDeallocation_KeepsFirst(self, hp, header) ==
    LET h == hp[header]
        stats == StatsOnFree(self.m_Stats, h.size)
        tagStats == IF h.tag < TagCount
                    THEN [self.m_TagStats EXCEPT
                             ![h.tag] = StatsOnFree(@, h.size)]
                    ELSE self.m_TagStats
        counted == [self EXCEPT !.m_Stats = stats, !.m_TagStats = tagStats]
        h1 == IF h.prev # NULL THEN [hp EXCEPT ![h.prev].next = h.next]
              ELSE hp
        s2 == IF h.next # NULL THEN counted
              ELSE [counted EXCEPT !.m_LastAllocation = h.prev]
        h2 == IF h.next # NULL THEN [h1 EXCEPT ![h.next].prev = h.prev]
              ELSE h1
    IN [sys |-> s2, heap |-> h2]

\* Faulty variant: the successor's prev link is not updated.
TrackDeallocation_NoBackLink(self, hp, header) ==
    LET h == hp[header]
        stats == StatsOnFree(self.m_Stats, h.size)
        tagStats == IF h.tag < TagCount
                    THEN [self.m_TagStats EXCEPT
                             ![h.tag] = StatsOnFree(@, h.size)]
                    ELSE self.m_TagStats
        counted == [self EXCEPT !.m_Stats = stats, !.m_TagStats = tagStats]
        s1 == IF h.prev # NULL THEN counted
              ELSE [counted EXCEPT !.m_FirstAllocation = h.next]
        h1 == IF h.prev # NULL THEN [hp EXCEPT ![h.prev].next = h.next]
              ELSE hp
        s2 == IF h.next # NULL THEN s1
              ELSE [s1 EXCEPT !.m_LastAllocation = h.prev]
    IN [sys |-> s2, heap |-> h1]

\* Faulty variant: the per-tag statistics are not updated.
TrackDeallocation_NoTagStats(self, hp, header) ==
    LET h == hp[header]
        stats == StatsOnFree(self.m_Stats, h.size)
        counted == [self EXCEPT !.m_Stats = stats]
        s1 == IF h.prev # NULL THEN counted
              ELSE [counted EXCEPT !.m_FirstAllocation = h.next]
        h1 == IF h.prev # NULL THEN [hp EXCEPT ![h.prev].next = h.next]
              ELSE hp
        s2 == IF h.next # NULL THEN s1
              ELSE [s1 EXCEPT !.m_LastAllocation = h.prev]
        h2 == IF h.next # NULL THEN [h1 EXCEPT ![h.next].prev = h.prev]
              ELSE h1
    IN [sys |-> s2, heap |-> h2]

\* SystemAllocator::TrackDeallocation
TrackDeallocation(self, hp, header) ==
    LET h == hp[header]
        stats == StatsOnFree(self.m_Stats, h.size)
        tagStats == IF h.tag < TagCount
                    THEN [self.m_TagStats EXCEPT
                             ![h.tag] = StatsOnFree(@, h.size)]
                    ELSE self.m_TagStats
        counted == [self EXCEPT !.m_Stats = stats, !.m_TagStats = tagStats]
        s1 == IF h.prev # NULL THEN counted
              ELSE [counted EXCEPT !.m_FirstAllocation = h.next]
        h1 == IF h.prev # NULL THEN [hp EXCEPT ![h.prev].next = h.next]
              ELSE hp
        s2 == IF h.next # NULL THEN s1
              ELSE [s1 EXCEPT !.m_LastAllocation = h.prev]
        h2 == IF h.next # NULL THEN [h1 EXCEPT ![h.next].prev = h.prev]
              ELSE h1
    IN [sys |-> s2, heap |-> h2]

\* SystemAllocator::Allocate(size, tag, alignment)
SysAllocateOutcomes(self, hp, pl, size, tag, alignment) ==
    IF size = 0 THEN {SysOutcome(self, hp, pl, NULL, FALSE)}
    ELSE
    LET trap == SysOutcome(self, hp, pl, NULL, TRUE)
        failed == Asserted(FALSE, trap, {SysOutcome(self, hp, pl, NULL, FALSE)})
        Got(memory) ==
            IF self.m_TrackingEnabled
            THEN LET header == [size |-> size, alignment |-> alignment,
                                tag |-> tag, file |-> NULL, line |-> 0,
                                prev |-> NULL, next |-> NULL,
                                guardValue |-> GUARD_VALUE]
                     t == TrackAllocation(self,
                              [Scrub(hp, pl) EXCEPT ![memory] = header],
                              memory, size, tag)
                 IN SysOutcome(t.sys, t.heap, pl \cup {memory},
                               memory + HeaderSize, FALSE)
            ELSE SysOutcome(self, Scrub(hp, pl), pl \cup {memory}, memory, FALSE)
        platform == UNION {IF memory = NULL THEN failed ELSE {Got(memory)} :
                              memory \in PlatformAlloc(pl, alignment)}
    IN Asserted(IsPowerOfTwo(alignment), trap, platform)

\* Faulty variant: the guard value is not verified.
SysFreeOutcomes_NoGuardCheck(self, hp, pl, ptr) ==
    IF ptr = NULL THEN {SysOutcome(self, hp, pl, NULL, FALSE)}
    ELSE
    LET trap == SysOutcome(self, hp, pl, NULL, TRUE)
        rejected == Asserted(FALSE, trap, {SysOutcome(self, hp, pl, NULL, FALSE)})
        Release(s, h, actualPtr) ==
            {SysOutcome(s, f.heap, f.plat, NULL, f.halted) :
                f \in PlatformFree(h, pl, actualPtr)}
    IN IF self.m_TrackingEnabled
       THEN LET header == ptr - HeaderSize
            IN IF header \notin PlatformAddrs
               THEN rejected \cup {trap}
               ELSE LET t == TrackDeallocation(self, hp, header)
                    IN Release(t.sys, t.heap, header)
       ELSE Release(self, hp, ptr)

\* SystemAllocator::Free(ptr)
SysFreeOutcomes(self, hp, pl, ptr) ==
    IF ptr = NULL THEN {SysOutcome(self, hp, pl, NULL, FALSE)}
    ELSE
    LET trap == SysOutcome(self, hp, pl, NULL, TRUE)
        rejected == Asserted(FALSE, trap, {SysOutcome(self, hp, pl, NULL, FALSE)})
        Release(s, h, actualPtr) ==
            {SysOutcome(s, f.heap, f.plat, NULL, f.halted) :
                f \in PlatformFree(h, pl, actualPtr)}
    IN IF self.m_TrackingEnabled
       THEN LET header == ptr - HeaderSize
            IN IF header \notin PlatformAddrs
               \* the bytes before an untracked block are not a header: the
               \* guard read is a wild read
               THEN rejected \cup {trap}
               ELSE IF hp[header].guardValue # GUARD_VALUE
               THEN rejected
               ELSE LET t == TrackDeallocation(self, hp, header)
                    IN Release(t.sys, t.heap, header)
       ELSE Release(self, hp, ptr)

\* SystemAllocator::Reset()
SysResetOutcomes(self, hp, pl) ==
    LET cleared == [self EXCEPT !.m_Stats = ZeroStats,
                                !.m_TagStats = [t \in Tags |-> ZeroStats],
                                !.m_FirstAllocation = NULL,
                                !.m_LastAllocation = NULL]
    IN Asserted(self.m_Stats.allocationCount = self.m_Stats.freeCount,
                SysOutcome(self, hp, pl, NULL, TRUE),
                {SysOutcome(cleared, hp, pl, NULL, FALSE)})

\* SystemAllocator::SetTrackingEnabled(enabled)
SysSetTrackingOutcomes(self, hp, pl, enabled) ==
    Asserted(self.m_Stats.allocationCount = self.m_Stats.freeCount,
             SysOutcome(self, hp, pl, NULL, TRUE),
             {SysOutcome([self EXCEPT !.m_TrackingEnabled = enabled],
                         hp, pl, NULL, FALSE)})

\* The headers ReportLeaks visits: from `current` along next, until null.
RECURSIVE Walk(_, _, _)
Walk(hp, current, fuel) ==
    IF current = NULL \/ fuel = 0 THEN <<>>
    ELSE <<current>> \o Walk(hp, hp[current].next, fuel - 1)

\* SystemAllocator::ReportLeaks(): the detailed leak report, one header per
\* line; nothing when tracking is off or every allocation was freed.
ReportLeaks(self, hp) ==
    IF ~self.m_TrackingEnabled
       \/ self.m_Stats.allocationCount = self.m_Stats.freeCount
    THEN <<>>
    ELSE Walk(hp, self.m_FirstAllocation, Cardinality(PlatformAddrs) + 1)

(***************************************************************************)
(* LinearAllocator.                                                        *)
(***************************************************************************)
\* The outcome of a LinearAllocator call.
LinOutcome(self, ret, stopped) ==
    [lin |-> self, ret |-> ret, diag |-> 0, halted |-> stopped]

\* LinearAllocator::LinearAllocator(size), with the buffer Memory::Allocate
\* returned for (size, EDGE_CACHE_LINE_SIZE).
LinearAllocatorInit(buffer, size) ==
    [m_Buffer |-> buffer, m_Size |-> size, m_Offset |-> 0,
     m_Stats |-> ZeroStats]

\* LinearAllocator::Allocate(size, tag, alignment)
LinAllocateOutcomes(self, size, tag, alignment) ==
    IF size = 0 THEN {LinOutcome(self, NULL, FALSE)}
    ELSE
    LET alignmentMask == Sub(alignment, 1)
        alignedOffset == BitAnd(Add(self.m_Offset, alignmentMask),
                                BitNot(alignmentMask))
    IN IF Add(alignedOffset, size) > self.m_Size
       THEN Asserted(FALSE, LinOutcome(self, NULL, TRUE),
                     {LinOutcome(self, NULL, FALSE)})
       ELSE {LinOutcome([self EXCEPT
                            !.m_Offset = Add(alignedOffset, size),
                            !.m_Stats = StatsOnAllocate(@, size)],
                        Add(self.m_Buffer, alignedOffset), FALSE)}

\* Faulty variant: a free of a non-null pointer is counted.
LinFreeOutcomes_CountsFree(self, ptr) ==
    IF ptr = NULL THEN {LinOutcome(self, NULL, FALSE)}
    ELSE {LinOutcome([self EXCEPT !.m_Stats.freeCount = Add(@, 1)],
                     NULL, FALSE)}

\* LinearAllocator::Free(ptr)
LinFreeOutcomes(self, ptr) == {LinOutcome(self, NULL, FALSE)}

\* Faulty variant: the offset is not rewound.
LinResetOutcomes_KeepsOffset(self) ==
    {LinOutcome([self EXCEPT !.m_Stats = StatsOnReset(@)], NULL, FALSE)}

\* LinearAllocator::Reset()
LinResetOutcomes(self) ==
    {LinOutcome([self EXCEPT !.m_Offset = 0,
                             !.m_Stats = StatsOnReset(@)], NULL, FALSE)}

(***************************************************************************)
(* PoolAllocator.                                                          *)
(***************************************************************************)
\* The outcome of a PoolAllocator call.
PoolOutcome(self, mem, ret, stopped) ==
    [pool |-> self, mem |-> mem, ret |-> ret, diag |-> 0, halted |-> stopped]

\* Address of slot i: m_Buffer + (i * m_AlignedElementSize)
SlotAddr(buffer, alignedElementSize, i) ==
    Add(buffer, Mul(i, alignedElementSize))

\* Faulty variant: each slot links to the word after its first one instead
\* of to the next slot.
BuildFreeList_PointerStride(mem, buffer, elementCount, alignedElementSize) ==
    [a \in DOMAIN mem |->
        IF \E i \in 0 .. (elementCount - 2) :
              a = SlotAddr(buffer, alignedElementSize, i)
        THEN Add(a, PtrSize)
        ELSE IF a = SlotAddr(buffer, alignedElementSize, elementCount - 1)
        THEN 0
        ELSE mem[a]]

\* The free-list set-up loop of the constructor and of Reset: slot i links
\* to slot i + 1 for i < elementCount - 1, the last slot holds 0.
BuildFreeList(mem, buffer, elementCount, alignedElementSize) ==
    [a \in DOMAIN mem |->
        IF \E i \in 0 .. (elementCount - 2) :
              a = SlotAddr(buffer, alignedElementSize, i)
        THEN Add(a, alignedElementSize)
        ELSE IF a = SlotAddr(buffer, alignedElementSize, elementCount - 1)
        THEN 0
        ELSE mem[a]]

\* The word addresses of a pool buffer.
PoolWords(buffer, elementCount, alignedElementSize) ==
    {buffer + PtrSize * j :
        j \in 0 .. ((elementCount * alignedElementSize) \div PtrSize - 1)}

\* PoolAllocator::PoolAllocator(elementSize, elementCount, alignment), with
\* the buffer Memory::Allocate returned for (totalSize, alignment).
PoolAllocatorInit(buffer, elementSize, elementCount, alignment) ==
    [m_Buffer |-> buffer,
     m_FreeList |-> buffer,
     m_ElementSize |-> elementSize,
     m_ElementCount |-> elementCount,
     m_AlignedElementSize |-> AlignUp(elementSize, alignment),
     m_FreeCount |-> elementCount,
     m_Stats |-> ZeroStats]

PoolMemInit(buffer, elementSize, elementCount, alignment) ==
    LET aligned == AlignUp(elementSize, alignment)
    IN BuildFreeList([a \in PoolWords(buffer, elementCount, aligned) |-> 0],
                     buffer, elementCount, aligned)

\* Faulty variant: the head of the free list is returned but not popped.
PoolAllocateOutcomes_NoPop(self, mem, size, tag, alignment) ==
    LET refused == Asserted(FALSE, PoolOutcome(self, mem, NULL, TRUE),
                            {PoolOutcome(self, mem, NULL, FALSE)})
    IN IF size > self.m_ElementSize THEN refused
       ELSE IF self.m_FreeList = NULL THEN refused
       ELSE {PoolOutcome([self EXCEPT
                             !.m_FreeCount = Sub(@, 1),
                             !.m_Stats = StatsOnAllocate(@, self.m_ElementSize)],
                         mem, self.m_FreeList, FALSE)}

\* Faulty variant: the statistics are updated before the free list is
\* found empty.
PoolAllocateOutcomes_CountsFirst(self, mem, size, tag, alignment) ==
    LET counted == [self EXCEPT
                       !.m_Stats = StatsOnAllocate(@, self.m_ElementSize)]
        refused(s) == Asserted(FALSE, PoolOutcome(s, mem, NULL, TRUE),
                               {PoolOutcome(s, mem, NULL, FALSE)})
    IN IF size > self.m_ElementSize THEN refused(self)
       ELSE IF self.m_FreeList = NULL THEN refused(counted)
       ELSE {PoolOutcome([counted EXCEPT
                             !.m_FreeList = mem[self.m_FreeList],
                             !.m_FreeCount = Sub(@, 1)],
                         mem, self.m_FreeList, FALSE)}

\* PoolAllocator::Allocate(size, tag, alignment)
PoolAllocateOutcomes(self, mem, size, tag, alignment) ==
    LET refused == Asserted(FALSE, PoolOutcome(self, mem, NULL, TRUE),
                            {PoolOutcome(self, mem, NULL, FALSE)})
    IN IF size > self.m_ElementSize THEN refused
       ELSE IF self.m_FreeList = NULL THEN refused
       ELSE {PoolOutcome([self EXCEPT
                             !.m_FreeList = mem[self.m_FreeList],
                             !.m_FreeCount = Sub(@, 1),
                             !.m_Stats = StatsOnAllocate(@, self.m_ElementSize)],
                         mem, self.m_FreeList, FALSE)}

\* ptr < m_Buffer || ptr >= m_Buffer + m_AlignedElementSize * m_ElementCount
PoolOutOfRange(self, ptr) ==
    \/ ptr < self.m_Buffer
    \/ ptr >= Add(self.m_Buffer,
                  Mul(self.m_AlignedElementSize, self.m_ElementCount))

\* Faulty variant: the freed slot is linked in behind the head of the free
\* list instead of becoming the head.
PoolFreeOutcomes_InsertsSecond(self, mem, ptr) ==
    IF ptr = NULL THEN {PoolOutcome(self, mem, NULL, FALSE)}
    ELSE IF PoolOutOfRange(self, ptr)
    THEN Asserted(FALSE, PoolOutcome(self, mem, NULL, TRUE),
                  {PoolOutcome(self, mem, NULL, FALSE)})
    ELSE LET counted == [self EXCEPT
                            !.m_FreeCount = Add(@, 1),
                            !.m_Stats = StatsOnFree(@, self.m_ElementSize)]
         IN IF self.m_FreeList = NULL
            THEN {PoolOutcome([counted EXCEPT !.m_FreeList = ptr],
                              [mem EXCEPT ![ptr] = NULL], NULL, FALSE)}
            ELSE {PoolOutcome(counted,
                              [mem EXCEPT ![ptr] = mem[self.m_FreeList],
                                          ![self.m_FreeList] = ptr],
                              NULL, FALSE)}

\* Faulty variant: the pointer is not checked against the buffer's range.
PoolFreeOutcomes_NoRangeCheck(self, mem, ptr) ==
    IF ptr = NULL THEN {PoolOutcome(self, mem, NULL, FALSE)}
    ELSE {PoolOutcome([self EXCEPT
                          !.m_FreeList = ptr,
                          !.m_FreeCount = Add(@, 1),
                          !.m_Stats = StatsOnFree(@, self.m_ElementSize)],
                      [a \in DOMAIN mem |->
                          IF a = ptr THEN self.m_FreeList ELSE mem[a]],
                      NULL, FALSE)}

\* PoolAllocator::Free(ptr)
PoolFreeOutcomes(self, mem, ptr) ==
    IF ptr = NULL THEN {PoolOutcome(self, mem, NULL, FALSE)}
    ELSE IF PoolOutOfRange(self, ptr)
    THEN Asserted(FALSE, PoolOutcome(self, mem, NULL, TRUE),
                  {PoolOutcome(self, mem, NULL, FALSE)})
    ELSE {PoolOutcome([self EXCEPT
                          !.m_FreeList = ptr,
                          !.m_FreeCount = Add(@, 1),
                          !.m_Stats = StatsOnFree(@, self.m_ElementSize)],
                      [mem EXCEPT ![ptr] = self.m_FreeList], NULL, FALSE)}

\* Faulty variant: the links are rebuilt but the head of the free list is
\* left where it was.
PoolResetOutcomes_KeepsHead(self, mem) ==
    {PoolOutcome([self EXCEPT
                     !.m_FreeCount = self.m_ElementCount,
                     !.m_Stats = StatsOnReset(@)],
                 BuildFreeList(mem, self.m_Buffer, self.m_ElementCount,
                               self.m_AlignedElementSize),
                 NULL, FALSE)}

\* PoolAllocator::Reset()
PoolResetOutcomes(self, mem) ==
    {PoolOutcome([self EXCEPT
                     !.m_FreeList = self.m_Buffer,
                     !.m_FreeCount = self.m_ElementCount,
                     !.m_Stats = StatsOnReset(@)],
                 BuildFreeList(mem, self.m_Buffer, self.m_ElementCount,
                               self.m_AlignedElementSize),
                 NULL, FALSE)}

(***************************************************************************)
(* Calls on the SystemAllocator.                                           *)
(***************************************************************************)
\* The (size, tag, alignment) requests made of the SystemAllocator; the last
\* one passes the sentinel MemoryTag::COUNT as the tag.
SysRequests ==
    {<<0, 0, 8>>, <<1, 0, 8>>, <<2, 4, 128>>, <<2, 0, 0>>, <<2, TagCount, 8>>}

Call(op, size, alignment, ptr, ret, diag) ==
    [op |-> op, size |-> size, alignment |-> alignment,
     ptr |-> ptr, ret |-> ret, diag |-> diag, level |-> "none",
     break |-> FALSE]

\* The platform block a user pointer of the SystemAllocator lies in.
BlockOf(ptr) == IF ptr \in PlatformAddrs THEN ptr ELSE ptr - HeaderSize

Without(seq, x) == SelectSeq(seq, LAMBDA y : y # x)
InSeq(seq, x) == \E i \in 1 .. Len(seq) : seq[i] = x

\* The state of the process outside the allocator objects.
processVars ==
    <<g_SystemAllocator, constructed, pc, mark, m_Callback, callbackCalls>>

otherVars == <<EDGE_DEBUG, strategy, lin, pool, poolMem, processVars>>

\* The process runs and the calls explored after a breach of the calling
\* contract are not used up.
Running == ~halted /\ misuse < MaxMisuse

Misused(breach) == IF misuse > 0 \/ breach THEN misuse + 1 ELSE 0

SysApply(o) ==
    /\ sys' = o.sys
    /\ heap' = o.heap
    /\ platformLive' = o.plat
    /\ halted' = o.halted

\* The runs explored pass the sentinel MemoryTag::COUNT as a category only
\* to an allocator that tracks and has made no allocation since its
\* construction or Reset.
SentinelExplored ==
    /\ misuse = 0 /\ sys.m_TrackingEnabled
    /\ sys.m_Stats = ZeroStats /\ platformLive = {}

\* Passing the sentinel as the category of a block is a breach of the
\* calling contract.
SysAllocate(size, tag, alignment) ==
    /\ Running /\ strategy = "system"
    /\ sys.m_Stats.allocationCount < MaxAllocs
    /\ tag \in Tags \/ SentinelExplored
    /\ \E o \in SysAllocateOutcomes(sys, heap, platformLive, size, tag, alignment) :
        /\ SysApply(o)
        /\ call' = Call("Allocate", size, alignment, NULL, o.ret, o.diag)
        /\ owned' = IF o.ret # NULL THEN Append(Without(owned, o.ret), o.ret)
                    ELSE owned
        /\ freed' = IF o.ret = freed THEN NULL ELSE freed
    /\ misuse' = Misused(tag \notin Tags)
    /\ sentinelUsed' = (sentinelUsed \/ tag \notin Tags)
    /\ UNCHANGED otherVars

SysFree(ptr) ==
    /\ Running /\ strategy = "system"
    /\ sys.m_Stats.freeCount < MaxCount
    /\ \E o \in SysFreeOutcomes(sys, heap, platformLive, ptr) :
        /\ SysApply(o)
        /\ call' = Call("Free", 0, 0, ptr, NULL, o.diag)
        /\ owned' = IF BlockOf(ptr) \in platformLive /\ BlockOf(ptr) \notin o.plat
                    THEN Without(owned, ptr) ELSE owned
        /\ freed' = IF BlockOf(ptr) \in platformLive /\ BlockOf(ptr) \notin o.plat
                    THEN ptr ELSE freed
    /\ misuse' = Misused(ptr # NULL /\ ~InSeq(owned, ptr))
    /\ UNCHANGED <<sentinelUsed, otherVars>>

SysReset ==
    /\ Running /\ strategy = "system"
    /\ \E o \in SysResetOutcomes(sys, heap, platformLive) :
        /\ SysApply(o)
        /\ call' = Call("Reset", 0, 0, NULL, NULL, o.diag)
    /\ misuse' = Misused(owned # <<>>)
    /\ UNCHANGED <<owned, freed, sentinelUsed, otherVars>>

\* The runs explored change the tracking mode while the calling contract
\* is kept, or as its first breach.
SysSetTrackingEnabled(enabled) ==
    /\ Running /\ strategy = "system"
    /\ misuse = 0
    /\ \E o \in SysSetTrackingOutcomes(sys, heap, platformLive, enabled) :
        /\ SysApply(o)
        /\ call' = Call("SetTrackingEnabled", 0, 0, NULL, NULL, o.diag)
    /\ misuse' = Misused(owned # <<>>)
    /\ UNCHANGED <<owned, freed, sentinelUsed, otherVars>>

SysReportLeaks ==
    /\ Running /\ strategy = "system"
    /\ call' = Call("ReportLeaks", 0, 0, NULL, ReportLeaks(sys, heap), 0)
    /\ misuse' = Misused(FALSE)
    /\ UNCHANGED <<sys, heap, platformLive, halted, owned, freed,
                   sentinelUsed, otherVars>>

vars == <<EDGE_DEBUG, halted, strategy, call, sys, heap, platformLive,
          owned, freed, misuse, lin, pool, poolMem, sentinelUsed,
          processVars>>

NoCall == Call("none", 0, 0, NULL, NULL, 0)

\* The threads that call the forwarders of the default instance.
Threads == {1, 2}

\* A thread's place in a forwarder and the instance pointer it holds.
At(label, obj) == [at |-> label, obj |-> obj]

\* No New is awaiting its Delete.
NoMark == [ptr |-> NULL, stats |-> ZeroStats]

\* The process before main: no default instance, no custom callback.
InitProcess ==
    /\ g_SystemAllocator = NULL
    /\ constructed = 0
    /\ pc = [t \in Threads |-> At("idle", NULL)]
    /\ mark = NoMark
    /\ m_Callback = FALSE
    /\ callbackCalls = 0

InitSys ==
    /\ EDGE_DEBUG \in BOOLEAN
    /\ InitProcess
    /\ sentinelUsed = FALSE
    /\ halted = FALSE
    /\ call = NoCall
    /\ sys = SystemAllocatorInit
    /\ heap = [a \in PlatformAddrs |-> NoHeader]
    /\ platformLive = {}
    /\ owned = <<>>
    /\ freed = NULL
    /\ misuse = 0

\* A write of the caller past the bounds of its own memory lands on the
\* AllocationHeader of live block `a` and destroys its guard value; the
\* runs explored make it the first breach of the calling contract.
HeapOverwrite(a) ==
    /\ Running /\ strategy = "system"
    /\ misuse = 0
    /\ a \in platformLive
    /\ heap[a].guardValue = GUARD_VALUE
    /\ heap' = [heap EXCEPT ![a].guardValue = NotGuard]
    /\ call' = Call("overwrite", 0, 0, a, NULL, 0)
    /\ misuse' = Misused(TRUE)
    /\ UNCHANGED <<sys, platformLive, halted, owned, freed, sentinelUsed,
                   otherVars>>

\* The pointers passed to SystemAllocator::Free: null, the pointers the
\* caller holds and the pointer released last.
SysFreeArgs ==
    IF strategy = "system"
    THEN {NULL, freed} \cup {owned[i] : i \in 1 .. Len(owned)}
    ELSE {}

\* The requests explored: all of them while the calling contract is kept,
\* the plain one after a breach.
SysRequestsExplored ==
    IF misuse = 0 THEN SysRequests ELSE {r \in SysRequests : r = <<1, 0, 8>>}

NextSys ==
    \/ \E r \in SysRequestsExplored : SysAllocate(r[1], r[2], r[3])
    \/ \E ptr \in SysFreeArgs : SysFree(ptr)
    \/ SysReset
    \/ \E enabled \in BOOLEAN : SysSetTrackingEnabled(enabled)
    \/ SysReportLeaks
    \/ \E a \in PlatformAddrs : HeapOverwrite(a)


(***************************************************************************)
(* Calls on the LinearAllocator.                                           *)
(***************************************************************************)
\* Addresses Memory::Allocate(size, EDGE_CACHE_LINE_SIZE) may return.
LinearBuffers == {4 * EDGE_CACHE_LINE_SIZE, 5 * EDGE_CACHE_LINE_SIZE}

\* The (size, alignment) requests made of the LinearAllocator.
LinRequests ==
    {<<0, 1>>, <<1, 1>>, <<3, 4>>, <<LinearSize, 8>>, <<1, 128>>, <<2, 3>>,
     <<1, 0>>, <<SIZE_MAX, 2>>}

sysVars == <<sys, heap, platformLive, freed, sentinelUsed, processVars>>

LinApply(o) ==
    /\ lin' = o.lin
    /\ halted' = o.halted

LinAllocate(size, tag, alignment) ==
    /\ Running /\ strategy = "linear"
    /\ lin.m_Stats.allocationCount < MaxAllocs
    /\ \E o \in LinAllocateOutcomes(lin, size, tag, alignment) :
        /\ LinApply(o)
        /\ call' = Call("Allocate", size, alignment, NULL, o.ret, o.diag)
        /\ owned' = IF o.ret # NULL THEN Append(owned, <<o.ret, size>>)
                    ELSE owned
    /\ misuse' = Misused(FALSE)
    /\ UNCHANGED <<EDGE_DEBUG, strategy, pool, poolMem, sysVars>>

LinFree(ptr) ==
    /\ Running /\ strategy = "linear"
    /\ \E o \in LinFreeOutcomes(lin, ptr) :
        /\ LinApply(o)
        /\ call' = Call("Free", 0, 0, ptr, NULL, o.diag)
    /\ misuse' = Misused(FALSE)
    /\ UNCHANGED <<owned, EDGE_DEBUG, strategy, pool, poolMem, sysVars>>

LinReset ==
    /\ Running /\ strategy = "linear"
    /\ lin.m_Stats.freeCount + lin.m_Stats.allocationCount <= MaxCount
    /\ \E o \in LinResetOutcomes(lin) :
        /\ LinApply(o)
        /\ call' = Call("Reset", 0, 0, NULL, NULL, o.diag)
    /\ owned' = <<>>
    /\ misuse' = Misused(FALSE)
    /\ UNCHANGED <<EDGE_DEBUG, strategy, pool, poolMem, sysVars>>

\* The pointers the caller got from the LinearAllocator since the last Reset.
LinOwned ==
    IF strategy = "linear" THEN {owned[i][1] : i \in 1 .. Len(owned)} ELSE {}

NextLinear ==
    \/ \E r \in LinRequests : LinAllocate(r[1], 0, r[2])
    \/ \E ptr \in {NULL} \cup LinOwned : LinFree(ptr)
    \/ LinReset

(***************************************************************************)
(* Calls on the PoolAllocator.                                             *)
(***************************************************************************)
\* Addresses Memory::Allocate(totalSize, alignment) may return.
PoolBuffers == {33 * PtrSize, 34 * PtrSize}

\* PoolAllocator(elementSize, elementCount, alignment) as constructed here.
PoolElementSize == PtrSize + 4
PoolAlignment == PtrSize

\* The (size, alignment) requests made of the PoolAllocator.
PoolRequests ==
    {<<0, 8>>, <<PoolElementSize, 8>>, <<4, 16>>, <<PoolElementSize + 1, 8>>,
     <<4, 3>>, <<4, 0>>}

\* The pointers passed to PoolAllocator::Free: null, every word address of
\* the buffer, the word before the buffer and the one past its end.
PoolFreeArgs ==
    {NULL, pool.m_Buffer - PtrSize} \cup DOMAIN poolMem
    \cup {pool.m_Buffer + pool.m_AlignedElementSize * pool.m_ElementCount}

PoolApply(o) ==
    /\ pool' = o.pool
    /\ poolMem' = o.mem
    /\ halted' = o.halted

PoolAllocate(size, tag, alignment) ==
    /\ Running /\ strategy = "pool"
    /\ pool.m_Stats.allocationCount < MaxCount
    /\ \E o \in PoolAllocateOutcomes(pool, poolMem, size, tag, alignment) :
        /\ PoolApply(o)
        /\ call' = Call("Allocate", size, alignment, NULL, o.ret, o.diag)
        /\ owned' = IF o.ret # NULL THEN Append(owned, o.ret) ELSE owned
    /\ misuse' = Misused(FALSE)
    /\ UNCHANGED <<EDGE_DEBUG, strategy, lin, sysVars>>

PoolFree(ptr) ==
    /\ Running /\ strategy = "pool"
    /\ pool.m_Stats.freeCount < MaxCount
    /\ \E o \in PoolFreeOutcomes(pool, poolMem, ptr) :
        /\ PoolApply(o)
        /\ call' = Call("Free", 0, 0, ptr, NULL, o.diag)
    /\ owned' = Without(owned, ptr)
    /\ misuse' = Misused(ptr # NULL /\ ~PoolOutOfRange(pool, ptr)
                         /\ ~InSeq(owned, ptr))
    /\ UNCHANGED <<EDGE_DEBUG, strategy, lin, sysVars>>

PoolReset ==
    /\ Running /\ strategy = "pool"
    /\ pool.m_Stats.freeCount + pool.m_Stats.allocationCount <= MaxCount
    /\ \E o \in PoolResetOutcomes(pool, poolMem) :
        /\ PoolApply(o)
        /\ call' = Call("Reset", 0, 0, NULL, NULL, o.diag)
    /\ owned' = <<>>
    /\ misuse' = Misused(FALSE)
    /\ UNCHANGED <<EDGE_DEBUG, strategy, lin, sysVars>>

NextPool ==
    \/ \E r \in PoolRequests : PoolAllocate(r[1], 0, r[2])
    \/ \E ptr \in PoolFreeArgs : PoolFree(ptr)
    \/ PoolReset

(***************************************************************************)
(* Calls on the AssertHandler.                                             *)
(***************************************************************************)
MaxCallbackCalls == 4

AssertLevels == {"Info", "Warning", "Error", "Fatal"}

\* Faulty variant: a registered callback takes the decision and never halts.
HandleAssert_CallbackDecides(callback, level) ==
    IF callback
    THEN [calls |-> 1, break |-> FALSE]
    ELSE [calls |-> 0, break |-> DefaultHandler(level)]

\* AssertHandler::HandleAssert(info): the invocations of the custom callback
\* and the returned halt decision.
HandleAssert(callback, level) ==
    IF callback
    THEN [calls |-> 1, break |-> DefaultHandler(level)]
    ELSE [calls |-> 0, break |-> DefaultHandler(level)]

allocatorVars ==
    <<sys, heap, platformLive, owned, freed, misuse, lin, pool, poolMem,
      sentinelUsed>>

\* AssertHandler::SetCallback(callback); an empty function is no callback.
SetCallback(callback) ==
    /\ ~halted /\ strategy = "handler"
    /\ m_Callback' = callback
    /\ call' = Call("SetCallback", 0, 0, NULL, NULL, 0)
    /\ UNCHANGED <<EDGE_DEBUG, strategy, halted, allocatorVars,
                   g_SystemAllocator, constructed, pc, mark, callbackCalls>>

\* AssertHandler::ResetCallback()
ResetCallback ==
    /\ ~halted /\ strategy = "handler"
    /\ m_Callback' = FALSE
    /\ call' = Call("ResetCallback", 0, 0, NULL, NULL, 0)
    /\ UNCHANGED <<EDGE_DEBUG, strategy, halted, allocatorVars,
                   g_SystemAllocator, constructed, pc, mark, callbackCalls>>

\* EDGE_ASSERT_IMPL with a condition that is false, at the given severity:
\* HandleAssert is called and DebugBreak() when it returns true.
RaiseAssert(level) ==
    /\ ~halted /\ strategy = "handler"
    /\ callbackCalls < MaxCallbackCalls
    /\ LET h == HandleAssert(m_Callback, level)
       IN /\ callbackCalls' = callbackCalls + h.calls
          /\ call' = [Call("HandleAssert", 0, 0, NULL, NULL, 1)
                         EXCEPT !.level = level, !.break = h.break]
          /\ halted' \in (IF h.break THEN BOOLEAN ELSE {FALSE})
    /\ UNCHANGED <<EDGE_DEBUG, strategy, allocatorVars, g_SystemAllocator,
                   constructed, pc, mark, m_Callback>>

NextAssert ==
    \/ \E callback \in BOOLEAN : SetCallback(callback)
    \/ ResetCallback
    \/ \E level \in AssertLevels : RaiseAssert(level)

(***************************************************************************)
(* The process-wide default instance, used by one thread.                  *)
(***************************************************************************)
MaxInstances == 2

\* Faulty variant: an instance is constructed whether or not one exists.
InitializeOutcome_AlwaysConstructs(g, n, self) ==
    [g |-> n + 1, constructed |-> n + 1, sys |-> SystemAllocatorInit]

\* Memory::Initialize(): the reference, the number of constructions and the
\* state of the instance afterwards.
InitializeOutcome(g, n, self) ==
    IF g = NULL
    THEN [g |-> n + 1, constructed |-> n + 1, sys |-> SystemAllocatorInit]
    ELSE [g |-> g, constructed |-> n, sys |-> self]

\* Memory::GetSystemAllocator()
GetSystemAllocator(g, n, self) ==
    IF g = NULL THEN InitializeOutcome(g, n, self)
    ELSE [g |-> g, constructed |-> n, sys |-> self]

\* SystemAllocator::~SystemAllocator(): the leak report is printed and the
\* balance of the counters is asserted.
DestructorOutcomes(self, hp, pl) ==
    LET report == IF self.m_TrackingEnabled
                     /\ self.m_Stats.allocationCount > self.m_Stats.freeCount
                  THEN ReportLeaks(self, hp) ELSE <<>>
    IN Asserted(self.m_Stats.allocationCount = self.m_Stats.freeCount,
                SysOutcome(self, hp, pl, report, TRUE),
                {SysOutcome(self, hp, pl, report, FALSE)})

\* Memory::Shutdown(): the destructor runs and, when it returns, the
\* reference is cleared.
ShutdownOutcomes(g, self, hp, pl) ==
    IF g = NULL THEN {[g |-> g, out |-> SysOutcome(self, hp, pl, <<>>, FALSE)]}
    ELSE {[g |-> IF o.halted THEN g ELSE NULL, out |-> o] :
             o \in DestructorOutcomes(self, hp, pl)}

\* Faulty variant: Delete destroys the object and keeps its memory.
DeleteOutcomes_NoFree(self, hp, pl, ptr) ==
    {SysOutcome(self, hp, pl, NULL, FALSE)}

\* Memory::Delete(ptr) on the instance GetSystemAllocator() returned:
\* nothing for a null pointer, else the destructor and Free(ptr).
DeleteOutcomes(self, hp, pl, ptr) ==
    IF ptr = NULL THEN {SysOutcome(self, hp, pl, NULL, FALSE)}
    ELSE SysFreeOutcomes(self, hp, pl, ptr)

\* Memory::New<T>(): Allocate(sizeof(T), alignof(T)), then the object is
\* constructed in place; constructing at a null pointer is undefined.
NewOutcomes(self, hp, pl, size, alignment) ==
    UNION {IF o.ret = NULL /\ ~o.halted
           THEN {o, [o EXCEPT !.halted = TRUE]}
           ELSE {o} :
              o \in SysAllocateOutcomes(self, hp, pl, size, 0, alignment)}

\* The (sizeof, alignof) of the types constructed with New.
NewTypes == {<<2, 2>>}

\* The (size, tag, alignment) requests made of Memory::Allocate and
\* Memory::AllocateTagged.
MemoryRequests == {<<1, 0, 8>>}

globalRest ==
    <<EDGE_DEBUG, strategy, misuse, lin, pool, poolMem, sentinelUsed, pc,
      m_Callback, callbackCalls>>

\* The instance a forwarder reaches, a call's outcome on it and the
\* pointer the caller gains or gives up.
GlobalApply(i, o) ==
    /\ g_SystemAllocator' = i.g
    /\ constructed' = i.constructed
    /\ SysApply(o)
    /\ owned' = IF o.ret # NULL
                THEN Append(Without(owned, o.ret), o.ret)
                ELSE SelectSeq(owned, LAMBDA q : BlockOf(q) \in o.plat)
    /\ freed' = NULL

\* A forwarder constructs at most MaxInstances instances.
Reachable == g_SystemAllocator # NULL \/ constructed < MaxInstances

\* The runs that reach the default instance through the forwarders.
ThroughForwarders == strategy \in {"global", "lifetime"}

\* Memory::Initialize()
Initialize ==
    /\ Running /\ ThroughForwarders /\ Reachable
    /\ LET i == InitializeOutcome(g_SystemAllocator, constructed, sys)
       IN /\ g_SystemAllocator' = i.g
          /\ constructed' = i.constructed
          /\ sys' = i.sys
    /\ call' = Call("Initialize", 0, 0, NULL, NULL, 0)
    /\ mark' = NoMark
    /\ UNCHANGED <<heap, platformLive, halted, owned, freed, globalRest>>

\* Memory::Shutdown().  In a "global" run the pointers into the blocks of a
\* destroyed instance are not used again; in a "lifetime" run the caller
\* keeps them.
Shutdown ==
    /\ Running /\ ThroughForwarders
    /\ \E d \in ShutdownOutcomes(g_SystemAllocator, sys, heap, platformLive) :
          /\ g_SystemAllocator' = d.g
          /\ halted' = d.out.halted
          /\ call' = [Call("Shutdown", 0, 0, NULL, d.out.ret, d.out.diag)
                         EXCEPT !.level = IF d.out.diag > 0 THEN "Error"
                                          ELSE "none",
                                !.break = /\ d.out.diag > 0
                                          /\ DefaultHandler("Error")]
          /\ owned' = IF d.g = NULL /\ strategy = "global" THEN <<>>
                      ELSE owned
    /\ mark' = NoMark
    /\ UNCHANGED <<sys, heap, platformLive, constructed, freed, globalRest>>

\* Memory::Allocate, Memory::AllocateAligned, Memory::AllocateTagged
MemoryAllocate(size, tag, alignment) ==
    /\ Running /\ ThroughForwarders /\ Reachable
    /\ LET i == GetSystemAllocator(g_SystemAllocator, constructed, sys)
       IN /\ i.sys.m_Stats.allocationCount < MaxAllocs
          /\ \E o \in SysAllocateOutcomes(i.sys, heap, platformLive,
                                          size, tag, alignment) :
                /\ GlobalApply(i, o)
                /\ call' = Call("Allocate", size, alignment, NULL, o.ret,
                                o.diag)
    /\ mark' = NoMark
    /\ UNCHANGED globalRest

\* Memory::Free, Memory::FreeAligned
MemoryFree(ptr) ==
    /\ Running /\ ThroughForwarders /\ Reachable
    /\ LET i == GetSystemAllocator(g_SystemAllocator, constructed, sys)
       IN /\ i.sys.m_Stats.freeCount < MaxCount
          /\ \E o \in SysFreeOutcomes(i.sys, heap, platformLive, ptr) :
                /\ GlobalApply(i, o)
                /\ call' = Call("Free", 0, 0, ptr, NULL, o.diag)
    /\ mark' = NoMark
    /\ UNCHANGED globalRest

\* Memory::GetStats(stats)
MemoryGetStats ==
    /\ Running /\ strategy = "global" /\ Reachable
    /\ LET i == GetSystemAllocator(g_SystemAllocator, constructed, sys)
       IN /\ g_SystemAllocator' = i.g
          /\ constructed' = i.constructed
          /\ sys' = i.sys
          /\ call' = Call("GetStats", 0, 0, NULL, NULL, 0)
    /\ mark' = NoMark
    /\ UNCHANGED <<heap, platformLive, halted, owned, freed, globalRest>>

\* Memory::New<T>(args...)
New(size, alignment) ==
    /\ Running /\ strategy = "global" /\ Reachable
    /\ LET i == GetSystemAllocator(g_SystemAllocator, constructed, sys)
       IN /\ i.sys.m_Stats.allocationCount < MaxAllocs
          /\ \E o \in NewOutcomes(i.sys, heap, platformLive, size, alignment) :
                /\ GlobalApply(i, o)
                /\ call' = Call("New", size, alignment, NULL, o.ret, o.diag)
                /\ mark' = IF o.ret # NULL
                           THEN [ptr |-> o.ret, stats |-> GetStats(i.sys)]
                           ELSE NoMark
    /\ UNCHANGED globalRest

\* Memory::Delete(ptr): a null pointer reaches no forwarder.
Delete(ptr) ==
    /\ Running /\ strategy = "global"
    /\ IF ptr = NULL
       THEN /\ call' = Call("Delete", 0, 0, ptr, NULL, 0)
            /\ UNCHANGED <<g_SystemAllocator, constructed, sys, heap,
                           platformLive, halted, owned, freed, mark>>
       ELSE /\ Reachable
            /\ LET i == GetSystemAllocator(g_SystemAllocator, constructed, sys)
               IN /\ i.sys.m_Stats.freeCount < MaxCount
                  /\ \E o \in DeleteOutcomes(i.sys, heap, platformLive, ptr) :
                        /\ GlobalApply(i, o)
                        /\ call' = Call("Delete", 0, 0, ptr, NULL, o.diag)
            /\ mark' = IF ptr = mark.ptr THEN mark ELSE NoMark
    /\ UNCHANGED globalRest

\* No LinearAllocator object exists.
NoLinear == LinearAllocatorInit(NULL, 0)

\* LinearAllocator::LinearAllocator(size): the buffer comes from
\* Memory::Allocate(size, EDGE_CACHE_LINE_SIZE) and is asserted non-null.
LinearConstructOutcomes(self, hp, pl, size) ==
    UNION {IF o.halted THEN {o}
           ELSE Asserted(o.ret # NULL, [o EXCEPT !.halted = TRUE], {o}) :
              o \in SysAllocateOutcomes(self, hp, pl, size, 0,
                                        EDGE_CACHE_LINE_SIZE)}

\* A LinearAllocator of LinearSize bytes is constructed.
ConstructLinear ==
    /\ Running /\ strategy = "lifetime" /\ Reachable
    /\ lin = NoLinear
    /\ LET i == GetSystemAllocator(g_SystemAllocator, constructed, sys)
       IN /\ i.sys.m_Stats.allocationCount < MaxAllocs
          /\ \E o \in LinearConstructOutcomes(i.sys, heap, platformLive,
                                              LinearSize) :
                /\ GlobalApply(i, o)
                /\ lin' = IF o.halted THEN lin
                          ELSE LinearAllocatorInit(o.ret, LinearSize)
                /\ call' = Call("LinearAllocator", LinearSize,
                                EDGE_CACHE_LINE_SIZE, NULL, o.ret, o.diag)
    /\ mark' = NoMark
    /\ UNCHANGED <<EDGE_DEBUG, strategy, misuse, pool, poolMem, sentinelUsed,
                   pc, m_Callback, callbackCalls>>

\* LinearAllocator::~LinearAllocator(): Memory::Free(m_Buffer), then
\* m_Buffer = nullptr.
DestroyLinear ==
    /\ Running /\ strategy = "lifetime" /\ Reachable
    /\ lin # NoLinear
    /\ LET i == GetSystemAllocator(g_SystemAllocator, constructed, sys)
       IN /\ i.sys.m_Stats.freeCount < MaxCount
          /\ \E o \in SysFreeOutcomes(i.sys, heap, platformLive,
                                      lin.m_Buffer) :
                /\ GlobalApply(i, o)
                /\ lin' = IF o.halted THEN lin ELSE NoLinear
                /\ call' = Call("~LinearAllocator", 0, 0, lin.m_Buffer, NULL,
                                o.diag)
    /\ mark' = NoMark
    /\ UNCHANGED <<EDGE_DEBUG, strategy, misuse, pool, poolMem, sentinelUsed,
                   pc, m_Callback, callbackCalls>>

\* No PoolAllocator object exists.
NoPool == PoolAllocatorInit(NULL, 0, 0, PoolAlignment)

\* PoolAllocator::PoolAllocator(elementSize, elementCount, alignment): the
\* buffer comes from Memory::Allocate(totalSize, alignment) and is asserted
\* non-null; the free list is then written into it, which is undefined for
\* a null buffer.
PoolConstructOutcomes(self, hp, pl, elementSize, elementCount, alignment) ==
    LET totalSize == Mul(AlignUp(elementSize, alignment), elementCount)
    IN UNION {IF o.halted THEN {o}
              ELSE Asserted(o.ret # NULL, [o EXCEPT !.halted = TRUE],
                            IF o.ret # NULL THEN {o}
                            ELSE {o, [o EXCEPT !.halted = TRUE]}) :
                 o \in SysAllocateOutcomes(self, hp, pl, totalSize, 0,
                                           alignment)}

\* A PoolAllocator of PoolElements elements is constructed.
ConstructPool ==
    /\ Running /\ strategy = "lifetime" /\ Reachable
    /\ pool = NoPool
    /\ LET i == GetSystemAllocator(g_SystemAllocator, constructed, sys)
       IN /\ i.sys.m_Stats.allocationCount < MaxAllocs
          /\ \E o \in PoolConstructOutcomes(i.sys, heap, platformLive,
                                            PoolElementSize, PoolElements,
                                            PoolAlignment) :
                /\ GlobalApply(i, o)
                /\ pool' = IF o.halted THEN pool
                           ELSE PoolAllocatorInit(o.ret, PoolElementSize,
                                                  PoolElements, PoolAlignment)
                /\ poolMem' = IF o.halted THEN poolMem
                              ELSE PoolMemInit(o.ret, PoolElementSize,
                                               PoolElements, PoolAlignment)
                /\ call' = Call("PoolAllocator", PoolElementSize,
                                PoolAlignment, NULL, o.ret, o.diag)
    /\ mark' = NoMark
    /\ UNCHANGED <<EDGE_DEBUG, strategy, misuse, lin, sentinelUsed, pc,
                   m_Callback, callbackCalls>>

\* PoolAllocator::~PoolAllocator(): Memory::Free(m_Buffer), then m_Buffer
\* and m_FreeList are cleared.
DestroyPool ==
    /\ Running /\ strategy = "lifetime" /\ Reachable
    /\ pool # NoPool
    /\ LET i == GetSystemAllocator(g_SystemAllocator, constructed, sys)
       IN /\ i.sys.m_Stats.freeCount < MaxCount
          /\ \E o \in SysFreeOutcomes(i.sys, heap, platformLive,
                                      pool.m_Buffer) :
                /\ GlobalApply(i, o)
                /\ pool' = IF o.halted THEN pool ELSE NoPool
                /\ poolMem' = IF o.halted THEN poolMem ELSE <<>>
                /\ call' = Call("~PoolAllocator", 0, 0, pool.m_Buffer, NULL,
                                o.diag)
    /\ mark' = NoMark
    /\ UNCHANGED <<EDGE_DEBUG, strategy, misuse, lin, sentinelUsed, pc,
                   m_Callback, callbackCalls>>

\* The pointers the caller passes to Free and Delete.
HeldPointers ==
    IF strategy = "global" THEN {NULL} \cup {owned[i] : i \in 1 .. Len(owned)}
    ELSE IF strategy = "lifetime"
    THEN {NULL} \cup ({owned[i] : i \in 1 .. Len(owned)}
                          \ {lin.m_Buffer, pool.m_Buffer})
    ELSE {}

NextGlobal ==
    \/ Initialize
    \/ Shutdown
    \/ \E r \in MemoryRequests : MemoryAllocate(r[1], r[2], r[3])
    \/ \E ptr \in HeldPointers : MemoryFree(ptr)
    \/ MemoryGetStats
    \/ \E T \in NewTypes : New(T[1], T[2])
    \/ \E ptr \in HeldPointers : Delete(ptr)

\* Blocks and allocators that outlive the default instance.
NextLifetime ==
    \/ Initialize
    \/ Shutdown
    \/ \E r \in MemoryRequests : MemoryAllocate(r[1], r[2], r[3])
    \/ \E ptr \in HeldPointers : MemoryFree(ptr)
    \/ ConstructLinear
    \/ DestroyLinear
    \/ ConstructPool
    \/ DestroyPool

(***************************************************************************)
(* The default instance, reached by several threads.  GetSystemAllocator   *)
(* and Initialize read and write g_SystemAllocator without synchronisation:*)
(* each read and each write is a step of its own.                          *)
(***************************************************************************)
\* Faulty variant: the test for a missing instance always succeeds.
SeesNoInstance_Always(g) == TRUE

\* `!g_SystemAllocator` in GetSystemAllocator, `g_SystemAllocator ==
\* nullptr` in Initialize.
SeesNoInstance(g) == g = NULL

raceRest ==
    <<EDGE_DEBUG, strategy, halted, allocatorVars, mark, m_Callback,
      callbackCalls>>

\* Memory::Initialize() called during start-up, before any other thread
\* runs.
StartupInitialize ==
    /\ ~halted /\ strategy = "race"
    /\ call.op = "none"
    /\ \A t \in Threads : pc[t].at = "idle"
    /\ constructed = 0
    /\ LET i == InitializeOutcome(g_SystemAllocator, constructed, sys)
       IN /\ g_SystemAllocator' = i.g
          /\ constructed' = i.constructed
    /\ call' = Call("Initialize", 0, 0, NULL, NULL, 0)
    /\ UNCHANGED <<pc, raceRest>>

\* A thread calls a forwarder.
CallForwarder(t) ==
    /\ ~halted /\ strategy = "race"
    /\ pc[t].at = "idle"
    /\ pc' = [pc EXCEPT ![t] = At("check", NULL)]
    /\ UNCHANGED <<g_SystemAllocator, constructed, call, raceRest>>

\* GetSystemAllocator: if (!g_SystemAllocator)
CheckInstance(t) ==
    /\ ~halted /\ strategy = "race"
    /\ pc[t].at = "check"
    /\ pc' = [pc EXCEPT ![t] = IF SeesNoInstance(g_SystemAllocator)
                               THEN At("initialize", NULL)
                               ELSE At("return", NULL)]
    /\ UNCHANGED <<g_SystemAllocator, constructed, call, raceRest>>

\* Initialize: if (g_SystemAllocator == nullptr)
CheckAgain(t) ==
    /\ ~halted /\ strategy = "race"
    /\ pc[t].at = "initialize"
    /\ pc' = [pc EXCEPT ![t] = IF SeesNoInstance(g_SystemAllocator)
                               THEN At("construct", NULL)
                               ELSE At("return", NULL)]
    /\ UNCHANGED <<g_SystemAllocator, constructed, call, raceRest>>

\* Initialize: new SystemAllocator()
Construct(t) ==
    /\ ~halted /\ strategy = "race"
    /\ pc[t].at = "construct"
    /\ constructed' = constructed + 1
    /\ pc' = [pc EXCEPT ![t] = At("assign", constructed + 1)]
    /\ UNCHANGED <<g_SystemAllocator, call, raceRest>>

\* Initialize: g_SystemAllocator = the new object
Assign(t) ==
    /\ ~halted /\ strategy = "race"
    /\ pc[t].at = "assign"
    /\ g_SystemAllocator' = pc[t].obj
    /\ pc' = [pc EXCEPT ![t] = At("return", NULL)]
    /\ UNCHANGED <<constructed, call, raceRest>>

\* GetSystemAllocator: return g_SystemAllocator
ReturnInstance(t) ==
    /\ ~halted /\ strategy = "race"
    /\ pc[t].at = "return"
    /\ pc' = [pc EXCEPT ![t] = At("use", g_SystemAllocator)]
    /\ UNCHANGED <<g_SystemAllocator, constructed, call, raceRest>>

\* The forwarder's call on the instance returns.
UseInstance(t) ==
    /\ ~halted /\ strategy = "race"
    /\ pc[t].at = "use"
    /\ pc' = [pc EXCEPT ![t] = At("idle", NULL)]
    /\ UNCHANGED <<g_SystemAllocator, constructed, call, raceRest>>

NextRace ==
    \/ StartupInitialize
    \/ \E t \in Threads :
          \/ CallForwarder(t)
          \/ CheckInstance(t)
          \/ CheckAgain(t)
          \/ Construct(t)
          \/ Assign(t)
          \/ ReturnInstance(t)
          \/ UseInstance(t)

(***************************************************************************)
(* Specifications.                                                         *)
(***************************************************************************)
Strategies == {"system", "linear", "pool"}

\* The buffers tried for the allocator a run exercises; the allocators it
\* does not exercise get one buffer and are never called.
Exercised(s, buffers) ==
    IF strategy = s THEN buffers
    ELSE {b \in buffers : \A c \in buffers : b <= c}

InitOf(strategies) ==
    /\ InitSys
    /\ strategy \in strategies
    /\ \E buffer \in Exercised("linear", LinearBuffers) :
          lin = IF strategy = "lifetime" THEN NoLinear
                ELSE LinearAllocatorInit(buffer, LinearSize)
    /\ \E buffer \in Exercised("pool", PoolBuffers) :
          IF strategy = "lifetime"
          THEN pool = NoPool /\ poolMem = <<>>
          ELSE /\ pool = PoolAllocatorInit(buffer, PoolElementSize,
                                           PoolElements, PoolAlignment)
               /\ poolMem = PoolMemInit(buffer, PoolElementSize,
                                        PoolElements, PoolAlignment)

Init == InitOf(Strategies)

Next == NextSys \/ NextLinear \/ NextPool

\* Every strategy.
Spec == Init /\ [][Next]_vars

\* One strategy each.
InitSystem == Init /\ strategy = "system"
InitLinear == Init /\ strategy = "linear"
InitPool == Init /\ strategy = "pool"

SpecSys == InitSystem /\ [][NextSys]_vars
SpecLinear == InitLinear /\ [][NextLinear]_vars
SpecPool == InitPool /\ [][NextPool]_vars

\* The assertion handler alone.
InitAssert == InitOf({"handler"})
SpecAssert == InitAssert /\ [][NextAssert]_vars

\* The default instance, reached by several threads.
InitRace == InitOf({"race"})
SpecRace == InitRace /\ [][NextRace]_vars

\* The default instance, used by one thread.
InitGlobal == InitOf({"global"})
SpecGlobal == InitGlobal /\ [][NextGlobal]_vars

InitLifetime == InitOf({"lifetime"})
SpecLifetime == InitLifetime /\ [][NextLifetime]_vars

(***************************************************************************)
(* Properties.                                                             *)
(***************************************************************************)
Balanced(st) == st.currentUsage = Sub(st.totalAllocated, st.totalFreed)

\* C1: for the SystemAllocator, the LinearAllocator and the PoolAllocator,
\* after every call, currentUsage equals totalAllocated minus totalFreed
\* (in size_t arithmetic).
C1_UsageIsAllocatedMinusFreed ==
    /\ Balanced(sys.m_Stats)
    /\ Balanced(lin.m_Stats)
    /\ Balanced(pool.m_Stats)

\* C1 happens: a tracked block was freed while another is still in use.
C1_Witness ==
    /\ strategy = "system" /\ sys.m_TrackingEnabled /\ misuse = 0
    /\ call.op = "Free"
    /\ sys.m_Stats.totalFreed > 0
    /\ sys.m_Stats.currentUsage > 0

\* The same for the two other strategies.
C1_WitnessLinear ==
    /\ strategy = "linear" /\ call.op = "Allocate" /\ call.ret # NULL
    /\ lin.m_Stats.totalFreed > 0 /\ lin.m_Stats.currentUsage > 0

C1_WitnessPool ==
    /\ strategy = "pool" /\ call.op = "Free" /\ misuse = 0
    /\ pool.m_Stats.totalFreed > 0 /\ pool.m_Stats.currentUsage > 0

\* C2: for every allocator, allocationCount >= freeCount in every reachable
\* state, for any sequence of allocate, free and reset calls.
C2_AllocationCountAtLeastFreeCount ==
    /\ sys.m_Stats.allocationCount >= sys.m_Stats.freeCount
    /\ lin.m_Stats.allocationCount >= lin.m_Stats.freeCount
    /\ pool.m_Stats.allocationCount >= pool.m_Stats.freeCount

\* C3: every non-null pointer p returned by allocate(size, tag, a), with a a
\* power of two, satisfies p mod a = 0.
C3_ReturnedPointerAligned ==
    (call.op = "Allocate" /\ call.ret # NULL /\ IsPowerOfTwo(call.alignment))
        => call.ret % call.alignment = 0

\* The slot of the pool a pointer into the buffer lies in.
SlotOf(ptr) == (ptr - pool.m_Buffer) \div pool.m_AlignedElementSize

\* No two pointers the caller holds lie in the same slot, and the slot the
\* next allocate will return (the head of the free list) is not one the
\* caller holds.
PoolHandsOutNoLiveSlot ==
    strategy = "pool" =>
        /\ \A i, j \in 1 .. Len(owned) :
              i # j => SlotOf(owned[i]) # SlotOf(owned[j])
        /\ pool.m_FreeList # NULL =>
              \A i \in 1 .. Len(owned) :
                  SlotOf(owned[i]) # SlotOf(pool.m_FreeList)

\* C4 as stated: in every reachable state the pool never hands out a slot
\* that is live, so no two live pointers refer to the same slot.
C4_NeverHandsOutLiveSlot == PoolHandsOutNoLiveSlot

\* C4 as amended: the same, as long as every pointer passed to free was a
\* live pointer of the pool, null or out of range (reset frees every slot).
C4_NoLiveSlotWhileFreesAreOfLivePointers ==
    misuse = 0 => PoolHandsOutNoLiveSlot

\* C4 happens: a freed slot was handed out again while another is live.
C4_Witness ==
    /\ strategy = "pool" /\ misuse = 0
    /\ call.op = "Allocate" /\ call.ret # NULL
    /\ pool.m_Stats.freeCount > 0
    /\ Len(owned) >= 2

\* C5: after elementCount successful allocations with no free or reset in
\* between, the next allocate returns null and leaves the free list,
\* m_FreeCount and the statistics unchanged.
PoolFullSinceConstruction ==
    /\ strategy = "pool" /\ misuse = 0
    /\ Len(owned) = pool.m_ElementCount
    /\ pool.m_Stats.allocationCount = pool.m_ElementCount
    /\ pool.m_Stats.freeCount = 0

C5_ExhaustedPoolReturnsNull ==
    [][(PoolFullSinceConstruction /\ call'.op = "Allocate")
          => (call'.ret = NULL /\ owned' = owned
              /\ pool' = pool /\ poolMem' = poolMem)]_vars

\* C5 happens: allocate was called on the full pool and returned null.
C5_Witness ==
    /\ PoolFullSinceConstruction
    /\ call.op = "Allocate" /\ call.ret = NULL
    /\ call.size > 0 /\ call.size <= pool.m_ElementSize

\* C6: with tracking enabled, after N successful allocations and M frees of
\* distinct live blocks, the walk from m_FirstAllocation along next visits
\* exactly the headers of the N - M blocks still live, each once.
ListWalk == Walk(heap, sys.m_FirstAllocation, Cardinality(PlatformAddrs) + 1)

C6_ListHoldsExactlyLiveHeaders ==
    (strategy = "system" /\ sys.m_TrackingEnabled /\ misuse = 0) =>
        /\ Len(ListWalk) = Len(owned)
        /\ {ListWalk[i] : i \in 1 .. Len(ListWalk)}
              = {owned[i] - HeaderSize : i \in 1 .. Len(owned)}
        /\ \A i, j \in 1 .. Len(ListWalk) : i # j => ListWalk[i] # ListWalk[j]
        /\ Len(owned) = sys.m_Stats.allocationCount - sys.m_Stats.freeCount

\* C6 happens: three blocks were allocated and the middle one freed; the
\* leak report lists the two others.
C6_Witness ==
    /\ strategy = "system" /\ sys.m_TrackingEnabled /\ misuse = 0
    /\ sys.m_Stats.allocationCount = 3 /\ sys.m_Stats.freeCount = 1
    /\ call.op = "ReportLeaks"
    /\ Len(call.ret) = 2
    /\ heap[call.ret[1]].next = call.ret[2]
    /\ call.ret[2] - call.ret[1] > 200

\* C7: with tracking enabled, a second free of a pointer that was already
\* freed is rejected: statistics, per-tag statistics and the tracking list
\* are unchanged.
C7_DoubleFreeRejected ==
    [][(strategy = "system" /\ sys.m_TrackingEnabled
        /\ call'.op = "Free" /\ call'.ptr # NULL /\ call'.ptr = freed)
          => (sys' = sys /\ ListWalk' = ListWalk)]_vars

\* C8: with tracking enabled, a free that finds a header whose guard value
\* is not the sentinel is aborted: statistics, per-tag statistics and the
\* tracking list are unchanged and the block is not released.
GuardMismatch(ptr) ==
    /\ strategy = "system" /\ sys.m_TrackingEnabled
    /\ ptr # NULL
    /\ ptr - HeaderSize \in PlatformAddrs
    /\ heap[ptr - HeaderSize].guardValue # GUARD_VALUE

C8_GuardMismatchAbortsFree ==
    [][(call'.op = "Free" /\ GuardMismatch(call'.ptr))
          => (sys' = sys /\ heap' = heap /\ platformLive' = platformLive)]_vars

\* C8 happens: free was called on a live block whose guard was overwritten;
\* the block is still handed out.
C8_Witness ==
    /\ call.op = "Free" /\ GuardMismatch(call.ptr)
    /\ call.ptr - HeaderSize \in platformLive
    /\ InSeq(owned, call.ptr)
    /\ ~halted

\* C9: SystemAllocator reset() with live allocations outstanding aborts
\* without mutating state: statistics, per-tag statistics and the list head
\* and tail are the same after the call.
C9_ResetWithLiveAllocationsAborts ==
    [][(strategy = "system" /\ call'.op = "Reset"
        /\ sys.m_Stats.allocationCount > sys.m_Stats.freeCount)
          => sys' = sys]_vars

\* C10: for every strategy, allocate with an alignment that is not a power
\* of two (0 included) returns no allocation and changes neither the
\* statistics nor the allocator's list, offset or free list.
C10_BadAlignmentAborts ==
    [][(call'.op = "Allocate" /\ ~IsPowerOfTwo(call'.alignment))
          => (call'.ret = NULL /\ sys' = sys /\ heap' = heap /\ lin' = lin
              /\ pool' = pool /\ poolMem' = poolMem)]_vars

\* C11: for every strategy, allocate with size 0 returns null and leaves
\* the statistics, the tracking list, the offset and the free list
\* unchanged.
C11_ZeroSizeReturnsNull ==
    [][(call'.op = "Allocate" /\ call'.size = 0)
          => (call'.ret = NULL /\ sys' = sys /\ heap' = heap
              /\ platformLive' = platformLive /\ lin' = lin
              /\ pool' = pool /\ poolMem' = poolMem)]_vars

\* The aligned offset LinearAllocator::Allocate computes for an alignment.
LinAlignedOffset(alignment) ==
    BitAnd(Add(lin.m_Offset, Sub(alignment, 1)), BitNot(Sub(alignment, 1)))

\* C12: linear allocator: when the aligned offset plus the requested size
\* exceeds m_Size, allocate returns null and leaves m_Offset and the
\* statistics unchanged.
C12_LinearOverflowingRequestRefused ==
    [][(strategy = "linear" /\ call'.op = "Allocate" /\ call'.size > 0
        /\ LinAlignedOffset(call'.alignment) + call'.size > lin.m_Size)
          => (call'.ret = NULL /\ lin' = lin)]_vars

RECURSIVE SumSizes(_)
SumSizes(seq) ==
    IF seq = <<>> THEN 0 ELSE Head(seq)[2] + SumSizes(Tail(seq))

\* C14: linear allocator: in every reachable state m_Offset <= m_Size and
\* the sizes of the successful allocations since the last reset sum to
\* stats.currentUsage and to at most m_Size.
C14_LinearNeverExceedsSize ==
    strategy = "linear" =>
        /\ lin.m_Offset <= lin.m_Size
        /\ SumSizes(owned) <= lin.m_Size
        /\ lin.m_Stats.currentUsage <= lin.m_Size

\* C15: linear allocator: free is a no-op for every argument: m_Offset and
\* the statistics are unchanged and every later allocate behaves as it
\* would have without the free.
C15_LinearFreeIsNoOp ==
    [][(strategy = "linear" /\ call'.op = "Free")
          => /\ lin' = lin
             /\ \A r \in LinRequests :
                   LinAllocateOutcomes(lin', r[1], 0, r[2])
                      = LinAllocateOutcomes(lin, r[1], 0, r[2])]_vars

\* C15 happens: a pointer handed out by the linear allocator was freed.
C15_Witness ==
    /\ strategy = "linear"
    /\ call.op = "Free" /\ call.ptr # NULL
    /\ call.ptr \in LinOwned
    /\ lin.m_Offset > 0
    /\ lin.m_Stats.currentUsage > 0 /\ lin.m_Stats.freeCount = 0

\* The last call was a free of a slot the caller held, and no call before
\* it freed anything else than a held slot.
PoolJustFreedLiveSlot ==
    /\ strategy = "pool" /\ misuse = 0
    /\ call.op = "Free" /\ call.ptr # NULL
    /\ ~PoolOutOfRange(pool, call.ptr)

\* C16 as stated: pool allocator: after free(p) of a live slot p the next
\* allocate returns exactly p.
C16_NextAllocateReturnsFreedSlot ==
    [][(PoolJustFreedLiveSlot /\ call'.op = "Allocate")
          => call'.ret = call.ptr]_vars

\* C16 as amended: after free(p) of a live slot p the next allocate whose
\* size is at most elementSize returns exactly p.
C16_NextFittingAllocateReturnsFreedSlot ==
    [][(PoolJustFreedLiveSlot /\ call'.op = "Allocate"
        /\ call'.size <= pool.m_ElementSize)
          => call'.ret = call.ptr]_vars

\* C16 happens: slots 0 and 1 were allocated, slot 0 freed and allocated
\* again while slot 2 was still free.
C16_Witness ==
    /\ strategy = "pool" /\ misuse = 0
    /\ call.op = "Allocate" /\ call.ret = pool.m_Buffer
    /\ owned = <<pool.m_Buffer + pool.m_AlignedElementSize, pool.m_Buffer>>
    /\ pool.m_Stats.allocationCount = 3 /\ pool.m_Stats.freeCount = 1

\* C17: pool allocator: free of a non-null pointer outside
\* [buffer, buffer + alignedElementSize * elementCount) and free(null)
\* leave the free list, m_FreeCount and the statistics unchanged.
C17_OutOfRangeFreeRejected ==
    [][(strategy = "pool" /\ call'.op = "Free"
        /\ (call'.ptr = NULL \/ PoolOutOfRange(pool, call'.ptr)))
          => (pool' = pool /\ poolMem' = poolMem)]_vars

\* C17 happens: a pointer outside the buffer was freed while slots were
\* handed out.
C17_Witness ==
    /\ strategy = "pool"
    /\ call.op = "Free" /\ call.ptr # NULL
    /\ PoolOutOfRange(pool, call.ptr)
    /\ Len(owned) > 0 /\ pool.m_FreeCount < pool.m_ElementCount

\* The slots on the free list, from its head.
RECURSIVE FreeChain(_, _, _)
FreeChain(mem, head, fuel) ==
    IF head = NULL \/ fuel = 0 \/ head \notin DOMAIN mem THEN <<>>
    ELSE <<head>> \o FreeChain(mem, mem[head], fuel - 1)

PoolFreeChain == FreeChain(poolMem, pool.m_FreeList, pool.m_ElementCount + 1)

\* Slots from, from + 1, ..., elementCount - 1 in ascending address order.
AscendingSlots(from) ==
    [i \in 1 .. (pool.m_ElementCount - from) |->
        SlotAddr(pool.m_Buffer, pool.m_AlignedElementSize, from + i - 1)]

\* C18: pool allocator: after reset the free list is the one of
\* construction (head at the buffer start, slot i linked to slot i + 1, the
\* last slot to null), and allocations made from such a list return the
\* slots in ascending address order.
C18_ResetRebuildsFreeList ==
    [][strategy = "pool" =>
         /\ call'.op = "Reset" =>
               /\ pool'.m_FreeList = pool.m_Buffer
               /\ pool'.m_FreeCount = pool.m_ElementCount
               /\ PoolFreeChain' = AscendingSlots(0)
               /\ PoolFreeChain' =
                     FreeChain(PoolMemInit(pool.m_Buffer, pool.m_ElementSize,
                                           pool.m_ElementCount, PoolAlignment),
                               pool.m_Buffer, pool.m_ElementCount + 1)
         /\ \A i \in 0 .. (pool.m_ElementCount - 1) :
               (/\ call'.op = "Allocate"
                /\ call'.size <= pool.m_ElementSize
                /\ PoolFreeChain = AscendingSlots(i))
                  => /\ call'.ret = SlotAddr(pool.m_Buffer,
                                             pool.m_AlignedElementSize, i)
                     /\ PoolFreeChain' = AscendingSlots(i + 1)]_vars

\* C18 happens: reset was called with slot 1 live and slot 0 freed back on
\* top of the list.
C18_Witness ==
    /\ strategy = "pool"
    /\ call.op = "Reset"
    /\ pool.m_Stats.allocationCount = 2 /\ pool.m_Stats.freeCount = 3
    /\ PoolFreeChain = AscendingSlots(0)
    /\ Len(PoolFreeChain) = pool.m_ElementCount

\* The platform blocks handed out whose header carries tag T.
TagLive(T) == {a \in platformLive : heap[a].tag = T}

\* Sum of the sizes recorded in the headers of a set of blocks.
RECURSIVE SumHeaderSizes(_)
SumHeaderSizes(blocks) ==
    IF blocks = {} THEN 0
    ELSE LET a == CHOOSE x \in blocks : TRUE
         IN heap[a].size + SumHeaderSizes(blocks \ {a})

\* The per-tag statistics describe the live blocks of each tag.
TagStatsMatchLiveBlocks ==
    \A T \in Tags :
        LET st == GetTagStats(sys, T)
        IN /\ st.currentUsage = SumHeaderSizes(TagLive(T))
           /\ st.allocationCount - st.freeCount = Cardinality(TagLive(T))
           /\ st.totalAllocated - st.totalFreed = st.currentUsage

\* Every tag but T reports the same statistics before and after the step.
OtherTagsUnchanged(T) ==
    \A U \in Tags \ {T} : GetTagStats(sys', U) = GetTagStats(sys, U)

\* C19: with tracking enabled, a successful allocation of size s under tag
\* T adds s to the usage and 1 to allocationCount of get_tag_stats(T) only,
\* a free of a live block of tag T and size s takes s from the usage and
\* adds 1 to freeCount of get_tag_stats(T) only, and for every tag the
\* reported currentUsage is the sum of the sizes of its live blocks.
C19_TagStatsCountPerTag ==
    [][(strategy = "system" /\ sys.m_TrackingEnabled /\ misuse' = 0) =>
         /\ sys'.m_TrackingEnabled => TagStatsMatchLiveBlocks'
         /\ \A r \in SysRequests :
               (/\ call'.op = "Allocate"
                /\ call'.size = r[1] /\ call'.alignment = r[3])
                  => IF call'.ret # NULL
                     THEN /\ GetTagStats(sys', r[2])
                               = StatsOnAllocate(GetTagStats(sys, r[2]), r[1])
                          /\ OtherTagsUnchanged(r[2])
                     ELSE sys'.m_TagStats = sys.m_TagStats
         /\ (call'.op = "Free" /\ call'.ptr # NULL) =>
               LET h == heap[call'.ptr - HeaderSize]
               IN /\ GetTagStats(sys', h.tag)
                       = StatsOnFree(GetTagStats(sys, h.tag), h.size)
                  /\ OtherTagsUnchanged(h.tag)]_vars

\* C19 happens: two blocks were allocated under tag 0 and one under tag 4,
\* and one of the blocks of tag 0 was freed.
C19_Witness ==
    /\ strategy = "system" /\ sys.m_TrackingEnabled /\ misuse = 0
    /\ call.op = "Free" /\ call.ptr # NULL
    /\ GetTagStats(sys, 0).allocationCount = 2
    /\ GetTagStats(sys, 0).freeCount = 1
    /\ GetTagStats(sys, 0).currentUsage = 1
    /\ GetTagStats(sys, 4).allocationCount = 1
    /\ GetTagStats(sys, 4).freeCount = 0
    /\ GetTagStats(sys, 4).currentUsage = 2
    /\ GetStats(sys).currentUsage = 3

\* C20: the tracking flag of the SystemAllocator changes value only in
\* states where no block obtained from the allocator is outstanding.
C20_TrackingChangesOnlyWhenNothingOutstanding ==
    [][(strategy = "system"
        /\ sys'.m_TrackingEnabled # sys.m_TrackingEnabled)
          => (platformLive = {} /\ owned = <<>>)]_vars

\* The step released the platform block of the pointer passed to free.
FreeAccepted ==
    /\ call'.op = "Free" /\ call'.ptr # NULL
    /\ \E a \in platformLive \ platformLive' : a = BlockOf(call'.ptr)

\* C21: SystemAllocator: every successful allocate and every accepted free
\* updates the global statistics, whether tracking is enabled or not.
C21_StatsUpdatedInEveryMode ==
    [][strategy = "system" =>
         /\ (call'.op = "Allocate" /\ call'.ret # NULL) =>
               GetStats(sys') = StatsOnAllocate(GetStats(sys), call'.size)
         /\ FreeAccepted =>
               /\ GetStats(sys').freeCount = GetStats(sys).freeCount + 1
               /\ GetStats(sys').totalFreed > GetStats(sys).totalFreed]_vars

\* The failure condition the called operation detects in this step, if any.
FailureDetected ==
    \/ /\ strategy = "pool" /\ call'.op = "Allocate"
       /\ (call'.size > pool.m_ElementSize \/ pool.m_FreeList = NULL)
    \/ /\ strategy = "pool" /\ call'.op = "Free" /\ call'.ptr # NULL
       /\ PoolOutOfRange(pool, call'.ptr)
    \/ /\ strategy = "linear" /\ call'.op = "Allocate" /\ call'.size > 0
       /\ Add(LinAlignedOffset(call'.alignment), call'.size) > lin.m_Size
    \/ /\ strategy = "system" /\ call'.op = "Allocate" /\ call'.size > 0
       /\ (~IsPowerOfTwo(call'.alignment) \/ call'.ret = NULL)
    \/ /\ call'.op = "Free" /\ GuardMismatch(call'.ptr)
    \/ /\ strategy = "system" /\ call'.op \in {"Reset", "SetTrackingEnabled"}
       /\ sys.m_Stats.allocationCount > sys.m_Stats.freeCount

\* C24: in every build configuration each failure condition the allocator
\* core detects is reported to the diagnostic handler before the operation
\* returns.
C24_EveryFailureReported ==
    [][FailureDetected => call'.diag >= 1]_vars

\* The free list of the pool followed through every word of the buffer.
PoolFreeChainAll ==
    FreeChain(poolMem, pool.m_FreeList, Cardinality(DOMAIN poolMem) + 1)

\* C28: pool allocator: in every reachable state the free list is acyclic
\* and its length is elementCount - (allocationCount - freeCount).
C28_FreeListLengthMatchesCounts ==
    strategy = "pool" =>
        /\ \A i, j \in 1 .. Len(PoolFreeChainAll) :
              i # j => PoolFreeChainAll[i] # PoolFreeChainAll[j]
        /\ Len(PoolFreeChainAll)
              = pool.m_ElementCount
                   - (pool.m_Stats.allocationCount - pool.m_Stats.freeCount)

\* The tracking list is a well-formed doubly-linked list of the headers of
\* the live blocks, in allocation order.
ListWellFormed ==
    /\ (sys.m_FirstAllocation = NULL) <=> (sys.m_LastAllocation = NULL)
    /\ (sys.m_FirstAllocation = NULL) <=> (platformLive = {})
    /\ sys.m_FirstAllocation # NULL =>
          /\ heap[sys.m_FirstAllocation].prev = NULL
          /\ heap[sys.m_LastAllocation].next = NULL
          /\ ListWalk[Len(ListWalk)] = sys.m_LastAllocation
    /\ \A i \in 1 .. Len(ListWalk) :
          heap[ListWalk[i]].next # NULL =>
              heap[heap[ListWalk[i]].next].prev = ListWalk[i]
    /\ ListWalk = [i \in 1 .. Len(owned) |-> owned[i] - HeaderSize]

\* C29: with tracking enabled, after every allocate and free the tracking
\* list is a well-formed doubly-linked list in allocation order; a new
\* header is appended at the tail and removing a header keeps the order of
\* the others.
C29_ListWellFormedInAllocationOrder ==
    [][(strategy = "system" /\ sys.m_TrackingEnabled /\ misuse' = 0) =>
         /\ sys'.m_TrackingEnabled => ListWellFormed'
         /\ (call'.op = "Allocate" /\ call'.ret # NULL) =>
               ListWalk' = Append(ListWalk, call'.ret - HeaderSize)
         /\ (call'.op = "Free" /\ call'.ptr # NULL) =>
               ListWalk' = Without(ListWalk, call'.ptr - HeaderSize)]_vars

\* C29 happens: of three live blocks the middle one was freed and the two
\* others are linked to each other in both directions.
C29_Witness ==
    /\ strategy = "system" /\ sys.m_TrackingEnabled /\ misuse = 0
    /\ call.op = "Free" /\ call.ptr # NULL
    /\ Len(ListWalk) = 2
    /\ sys.m_Stats.allocationCount = 3 /\ sys.m_Stats.freeCount = 1
    /\ call.ptr - HeaderSize > ListWalk[1]
    /\ call.ptr - HeaderSize < ListWalk[2]
    /\ heap[ListWalk[2]].prev = ListWalk[1]
    /\ heap[ListWalk[1]].next = ListWalk[2]

\* The field-wise sum of two statistics records, in size_t.
StatsSum(a, b) ==
    [totalAllocated |-> Add(a.totalAllocated, b.totalAllocated),
     totalFreed |-> Add(a.totalFreed, b.totalFreed),
     currentUsage |-> Add(a.currentUsage, b.currentUsage),
     peakUsage |-> Add(a.peakUsage, b.peakUsage),
     allocationCount |-> Add(a.allocationCount, b.allocationCount),
     freeCount |-> Add(a.freeCount, b.freeCount)]

RECURSIVE SumTagStats(_, _)
\* The field-wise sums of the per-tag statistics of the tags in T.
SumTagStats(tagStats, T) ==
    IF T = {} THEN ZeroStats
    ELSE LET t == CHOOSE x \in T : TRUE
         IN StatsSum(tagStats[t], SumTagStats(tagStats, T \ {t}))

\* The global statistics are the field-wise sums of the per-tag statistics
\* over all tags; the entries that are all zero add nothing to the sums.
TagSumsMatchIn(self) ==
    LET used == {t \in Tags : self.m_TagStats[t] # ZeroStats}
        sum == SumTagStats(self.m_TagStats, used)
    IN \A field \in {"totalAllocated", "totalFreed", "currentUsage",
                     "allocationCount", "freeCount"} :
           self.m_Stats[field] = sum[field]

TagSumsMatch == TagSumsMatchIn(sys)

\* The statement of C30 as made: with tracking enabled the global
\* statistics are the sums of the per-tag statistics in every reachable
\* state.
C30_GlobalIsSumOfTagsAlways ==
    (strategy = "system" /\ sys.m_TrackingEnabled) => TagSumsMatch

\* C30: as long as no allocation was requested under a tag outside the
\* categories (MemoryTag::COUNT or above), the global statistics of the
\* SystemAllocator are in every reachable state the sums of the per-tag
\* statistics over all tags, field by field for totalAllocated, totalFreed,
\* currentUsage, allocationCount and freeCount.
C30_GlobalIsSumOfCategoryTags ==
    (strategy = "system" /\ ~sentinelUsed) => TagSumsMatch

\* C30 happens: blocks of two categories were allocated, one was freed and
\* another allocated, and the sums match.
C30_Witness ==
    /\ strategy = "system" /\ sys.m_TrackingEnabled
    /\ call.op = "Allocate" /\ call.ret # NULL
    /\ GetStats(sys).allocationCount = 3 /\ GetStats(sys).freeCount = 1
    /\ GetTagStats(sys, 0).allocationCount = 2
    /\ GetTagStats(sys, 4).allocationCount = 1
    /\ GetTagStats(sys, 4).freeCount = 1
    /\ ~sentinelUsed /\ TagSumsMatch

\* C25: the halt decision of a handled assertion depends only on severity
\* and build type: Info and Warning never halt, Error halts exactly in a
\* debug build, Fatal always; a registered callback is invoked once per
\* handled assertion and does not change the decision.
C25_HaltDecisionBySeverityAndBuild ==
    [][call'.op = "HandleAssert" =>
         /\ call'.level \in {"Info", "Warning"} => ~call'.break
         /\ call'.level = "Error" => (call'.break <=> EDGE_DEBUG)
         /\ call'.level = "Fatal" => call'.break
         /\ callbackCalls' = callbackCalls + (IF m_Callback THEN 1 ELSE 0)
         /\ halted' => call'.break]_vars

\* C25 happens: with a callback registered an Error assertion was handled
\* in a release build: the callback ran and the process was not halted.
C25_Witness ==
    /\ strategy = "handler" /\ ~EDGE_DEBUG /\ m_Callback
    /\ call.op = "HandleAssert" /\ call.level = "Error"
    /\ callbackCalls = 2 /\ ~call.break /\ ~halted

\* The instance has the state a constructor leaves: all statistics zero
\* and an empty tracking list.
FreshInstance(self) ==
    /\ self.m_Stats = ZeroStats
    /\ \A t \in Tags : self.m_TagStats[t] = ZeroStats
    /\ self.m_FirstAllocation = NULL /\ self.m_LastAllocation = NULL

\* C22: default instance used by one thread: Initialize creates an
\* instance only when none exists and otherwise keeps the instance and its
\* statistics; Shutdown, when it returns, has destroyed the instance and
\* cleared the reference; a forwarder called when no instance exists
\* creates one first; the instance an Initialize or a forwarder creates,
\* also after a Shutdown, has all-zero statistics and an empty list.
C22_DefaultInstanceLifecycle ==
    [][(strategy = "global" /\ ~halted') =>
         /\ call'.op = "Initialize" =>
               IF g_SystemAllocator # NULL
               THEN /\ g_SystemAllocator' = g_SystemAllocator
                    /\ constructed' = constructed
                    /\ sys' = sys
               ELSE /\ g_SystemAllocator' # NULL
                    /\ constructed' = constructed + 1
                    /\ FreshInstance(sys')
         /\ call'.op = "Shutdown" =>
               /\ g_SystemAllocator' = NULL
               /\ constructed' = constructed
         /\ call'.op \in {"Allocate", "Free", "GetStats", "New"} =>
               /\ g_SystemAllocator' # NULL
               /\ g_SystemAllocator # NULL =>
                     /\ g_SystemAllocator' = g_SystemAllocator
                     /\ constructed' = constructed
               /\ g_SystemAllocator = NULL =>
                     /\ constructed' = constructed + 1
                     /\ g_SystemAllocator' = constructed'
                     /\ call'.op \in {"GetStats", "Free"} =>
                           FreshInstance(sys')]_vars

\* C22 happens: after a Shutdown that left a block behind, Initialize made
\* the second instance, with zero statistics and an empty list.
C22_Witness ==
    /\ strategy = "global" /\ call.op = "Initialize"
    /\ constructed = 2 /\ g_SystemAllocator = 2
    /\ platformLive # {}
    /\ FreshInstance(sys)

\* The step destroys a default instance that has more allocations than
\* frees.
TeardownWithLeaks ==
    /\ strategy = "global" /\ call'.op = "Shutdown"
    /\ g_SystemAllocator # NULL
    /\ sys.m_Stats.allocationCount > sys.m_Stats.freeCount

\* C23: destroying a SystemAllocator while allocationCount > freeCount
\* reports at Warning severity only: in every build the halt decision is
\* false and teardown never triggers the trap primitive.
C23_TeardownWithLeaksNeverHalts ==
    [][TeardownWithLeaks =>
         /\ call'.level \in {"none", "Warning"}
         /\ ~call'.break
         /\ ~halted']_vars

\* C26: if allocationCount = freeCount held before New, then after the
\* Delete of the pointer New returned it holds again and currentUsage has
\* its earlier value; Delete of a null pointer changes nothing.
C26_NewDeleteRoundTrip ==
    [][(strategy = "global" /\ call'.op = "Delete") =>
         /\ call'.ptr = NULL =>
               UNCHANGED <<g_SystemAllocator, constructed, sys, heap,
                           platformLive, halted, owned>>
         /\ (/\ call'.ptr # NULL /\ call'.ptr = mark.ptr
             /\ mark.stats.allocationCount = mark.stats.freeCount) =>
               /\ GetStats(sys').allocationCount = GetStats(sys').freeCount
               /\ GetStats(sys').currentUsage = mark.stats.currentUsage
               /\ ~halted']_vars

\* C26 happens: in a tracking instance with balanced counters and usage 0 a
\* New was followed by its Delete, after an earlier allocate and free.
C26_Witness ==
    /\ strategy = "global" /\ sys.m_TrackingEnabled
    /\ call.op = "Delete" /\ call.ptr # NULL /\ call.ptr = mark.ptr
    /\ mark.stats.allocationCount = 1 /\ mark.stats.freeCount = 1
    /\ GetStats(sys).allocationCount = 2 /\ GetStats(sys).freeCount = 2
    /\ GetStats(sys).currentUsage = 0

\* C27: when Initialize has completed before the threads use the
\* forwarders, no interleaving of forwarder calls constructs a second
\* instance; when it was never called, the unsynchronised check-then-create
\* lets two threads each construct a SystemAllocator.
C27_InitializedFirstConstructsOnce ==
    strategy = "race" =>
        /\ call.op = "Initialize" =>
              /\ constructed = 1 /\ g_SystemAllocator = 1
              /\ \A t \in Threads :
                    pc[t].at \notin {"initialize", "construct", "assign"}
        /\ constructed > 1 => call.op = "none"

\* C27 happens: Initialize was never called, both threads constructed an
\* instance and each works on its own; the first one is lost.
C27_Witness ==
    /\ strategy = "race" /\ call.op = "none"
    /\ constructed = 2 /\ g_SystemAllocator = 2
    /\ pc[1].at = "use" /\ pc[2].at = "use"
    /\ pc[1].obj # pc[2].obj

\* The bytes [p, p + size) of an allocation the caller got.
LinRange(block) == block[1] .. (block[1] + block[2] - 1)

\* C31: linear allocator: the byte ranges of the successful allocations
\* made since the last reset are pairwise disjoint and lie inside
\* [buffer, buffer + S), for every size and every alignment argument.
C31_LinearRangesDisjointInsideBuffer ==
    strategy = "linear" =>
        /\ \A i \in 1 .. Len(owned) :
              LinRange(owned[i])
                 \subseteq lin.m_Buffer .. (lin.m_Buffer + lin.m_Size - 1)
        /\ \A i, j \in 1 .. Len(owned) :
              i # j => LinRange(owned[i]) \cap LinRange(owned[j]) = {}

\* The offset rounded up to a power-of-two alignment, without wrap-around.
TrueAlignedOffset(offset, alignment) ==
    ((offset + alignment - 1) \div alignment) * alignment

\* C33: linear allocator: for every size from 1 to 2^w - 1 a request whose
\* aligned offset plus size, computed without wrap-around, exceeds S is
\* rejected with null and does not move m_Offset.
C33_WrappedSumNeverPassesCheck ==
    [][(/\ strategy = "linear" /\ call'.op = "Allocate"
        /\ call'.size >= 1 /\ IsPowerOfTwo(call'.alignment)
        /\ TrueAlignedOffset(lin.m_Offset, call'.alignment) + call'.size
              > lin.m_Size)
          => (call'.ret = NULL /\ lin'.m_Offset = lin.m_Offset)]_vars

\* The slot start addresses buffer + k * alignedElementSize, 0 <= k < count.
SlotStarts ==
    {SlotAddr(pool.m_Buffer, pool.m_AlignedElementSize, k) :
        k \in 0 .. (pool.m_ElementCount - 1)}

\* The head of the free list, every link of the list and the pointer the
\* last allocate returned are slot start addresses (or null).
PoolListHoldsSlotStarts ==
    /\ pool.m_FreeList \in SlotStarts \cup {NULL}
    /\ \A i \in 1 .. Len(PoolFreeChainAll) :
          /\ PoolFreeChainAll[i] \in SlotStarts
          /\ poolMem[PoolFreeChainAll[i]] \in SlotStarts \cup {NULL}
    /\ (call.op = "Allocate" /\ call.ret # NULL) => call.ret \in SlotStarts

\* C32 as stated: pool allocator: in every reachable state every entry of
\* the free list, and so every pointer allocate returns, is a slot start
\* address, for any allocate and free calls whose free arguments pass the
\* range check.
C32_FreeListHoldsSlotStarts ==
    strategy = "pool" => PoolListHoldsSlotStarts

\* C32 as amended: the same, as long as every non-null, in-range pointer
\* passed to free was a live pointer of the pool.
C32_SlotStartsWhileFreesAreOfLivePointers ==
    (strategy = "pool" /\ misuse = 0) => PoolListHoldsSlotStarts

\* C32 happens: a live slot other than the first was freed and is the head
\* of a free list of two or more slots while another slot is handed out.
C32_Witness ==
    /\ strategy = "pool" /\ misuse = 0
    /\ call.op = "Free" /\ call.ptr \in SlotStarts
    /\ pool.m_FreeList = call.ptr /\ call.ptr # pool.m_Buffer
    /\ Len(PoolFreeChainAll) >= 2
    /\ Len(owned) >= 1

\* C34: blocks that outlive a Shutdown, the backing buffer of a
\* LinearAllocator among them: a block is only accounted as freed by the
\* instance that accounted its allocation, so no default instance reaches
\* freeCount > allocationCount or takes more from currentUsage than it
\* added.
C34_NoInstanceFreesMoreThanItAllocated ==
    strategy = "lifetime" =>
        /\ sys.m_Stats.freeCount <= sys.m_Stats.allocationCount
        /\ sys.m_Stats.totalFreed <= sys.m_Stats.totalAllocated

====
